---- MODULE Spec2Model ----
(***************************************************************************)
(* The Puller of go/store/datas/pull (src/unnamed/part_001): NewPuller's   *)
(* startup checks and Pull's pipeline of goroutines: the driver (level     *)
(* loop), getCmp's fetch, walk and pack stages, and the consumer of the    *)
(* completed-files channel (processCompletedTables), under the errgroup's  *)
(* shared cancellation.                                                    *)
(*                                                                         *)
(* Addresses are strings.  A table file's id is the content hash of the    *)
(* file, modelled as the sequence of chunk addresses written to it.        *)
(* Source and sink stores are the environment: a call of theirs may fail   *)
(* while the fault budget (faults) lasts.                                  *)
(***************************************************************************)
EXTENDS Integers, Sequences, FiniteSets, TLC

\* ------------------------------------------------------------ bounds
\* how many environment faults (store errors, a cancel by the caller) one run may see
MaxFaults == 1
\* the bounded specification starts no fetch that would raise totalSourceChunks above this
MaxSourceChunks == 6
\* the statistics counters are uint64; their width is scaled down to this modulus
CounterMod == 8
\* writer handles are named 1..MaxWriterIds; a name is free again once its file is removed
MaxWriterIds == 6
\* how often the sink may invoke the upload body callback for one table file
MaxBodyCalls == 2
\* how many times the one-second ticker of emitStats fires during one pull
MaxTicks == 1
\* the batch limit, 64*1024 in the source, scaled down so that a level can reach it
maxBatchSize == 3

\* ------------------------------------------------------------ program constants
outstandingTableFiles == 2
CompletedCap == 8
FoundCap == 4096
ProcessedCap == 4096

\* ------------------------------------------------------------ errors
Nil == "nil"
ErrDBUpToDate == "ErrDBUpToDate"
ErrIncompatibleSourceChunkStore == "ErrIncompatibleSourceChunkStore"
ErrNotFound == "not found"
ErrVersion == "version mismatch"
ErrCanceled == "context canceled"
ErrIncomplete == "failed to get all chunks."
ErrSrcHasMany == "source HasMany error"
ErrSinkHasMany == "sink HasMany error"
ErrNewWriter == "NewCmpChunkTableWriter error"
ErrGetMany == "GetManyCompressed error"
ErrToChunk == "ToChunk error"
ErrWalk == "WalkAddrs error"
ErrAddCmpChunk == "AddCmpChunk error"
ErrFinish == "Finish error"
ErrReader == "Reader error"
ErrWriteTableFile == "WriteTableFile error"
ErrManifest == "AddTableFilesToManifest error"

\* ------------------------------------------------------------ inputs
Addrs == {"A", "B", "C", "D", "E", "F"}

GLeaf == [a \in {"A"} |-> {}]
GTree == [a \in {"A", "B", "C"} |-> IF a = "A" THEN {"B", "C"} ELSE {}]
GSelf == [a \in {"A"} |-> {"A"}]
GCross == [a \in {"A", "B", "C"} |->
             IF a = "A" THEN {"B", "C"} ELSE IF a = "B" THEN {"C"} ELSE {}]
GFive == [a \in {"A", "B", "C", "D", "E"} |->
            IF a = "A" THEN {"B", "C"} ELSE IF a = "B" THEN {"D"}
            ELSE IF a = "C" THEN {"E"} ELSE {}]
GWide == [a \in {"A", "B", "C", "D"} |-> IF a = "A" THEN {"B", "C", "D"} ELSE {}]
GFlat == [a \in {"A", "B", "C"} |-> {}]
\* three roots, a level of two batches, with two candidates for the next level
GRoots == [a \in {"A", "B", "C", "D", "E"} |->
             IF a \in {"A", "B"} THEN {"D"} ELSE IF a = "C" THEN {"E"} ELSE {}]
\* three roots, one of them with as many references as the batch limit
GOver == [a \in Addrs |-> IF a = "A" THEN {"D", "E", "F"} ELSE {}]
\* the chunks of s, all leaves
GLeaves(s) == [a \in s |-> {}]

Scn(g, sink, roots, k, same, cmp) ==
    [src |-> g, sink0 |-> sink, hashes |-> roots, chunksPerTF |-> k,
     sameVersion |-> same, compressed |-> cmp, statsCh |-> FALSE, leafFlags |-> "exact"]
\* the same inputs with a statistics channel (statsCh != nil), which is unbuffered
WithStatsCh(s) == [s EXCEPT !.statsCh = TRUE]
\* the same inputs with a walker that passes other leaf flags with the same addresses:
\* "exact" flags the addresses of chunks without references, "always" and "never" all
\* of them or none
WithLeafFlags(s, f) == [s EXCEPT !.leafFlags = f]

\* a store that holds a chunk holds every chunk it references: a pull keeps it so
RefClosed(g, s) == \A a \in s \cap DOMAIN g : g[a] \subseteq s

AllScenarios ==
    {Scn(GLeaf, {}, {"A"}, k, TRUE, TRUE) : k \in {1, 2}}
    \cup {Scn(GTree, s, {"A"}, k, TRUE, TRUE) : s \in {{}, {"C"}}, k \in {1, 2}}
    \cup {Scn(GSelf, {}, {"A"}, k, TRUE, TRUE) : k \in {1, 2}}
    \cup {Scn(GCross, {}, {"A"}, k, TRUE, TRUE) : k \in {1, 2}}
    \cup {Scn(GFive, {}, {"A"}, 2, TRUE, TRUE)}
    \cup {Scn(GWide, {}, {"A"}, 2, TRUE, TRUE)}
    \cup {Scn(GFlat, s, {"A", "B", "C"}, 2, TRUE, TRUE) : s \in {{}, {"B"}}}
    \cup {Scn(g, {}, {"A", "B", "C"}, 2, TRUE, TRUE) : g \in {GRoots, GOver}}
    \cup {Scn(GLeaf, s, r, 1, TRUE, TRUE) :
            s \in {{}, {"A"}, {"B"}}, r \in {{}, {"A"}, {"B"}, {"A", "B"}}}
    \cup {Scn(GLeaf, {}, {"A"}, 1, same, cmp) : same \in BOOLEAN, cmp \in BOOLEAN}
    \cup {Scn(GTree, {"A", "B", "C"}, {"A"}, 1, same, cmp) :
            same \in BOOLEAN, cmp \in BOOLEAN}
    \cup {Scn(GLeaf, s, {"B"}, 1, same, cmp) :
            s \in {{}, {"B"}}, same \in BOOLEAN, cmp \in BOOLEAN}
    \cup {WithStatsCh(Scn(GLeaf, {}, {"A"}, 1, TRUE, TRUE))}
    \cup {WithLeafFlags(Scn(g, {}, {"A"}, 2, TRUE, TRUE), f) :
            g \in {GTree, GCross}, f \in {"always", "never"}}
    \* root sets above the batch limit, up to twice the limit
    \cup {Scn(GLeaves(r), {}, r, 8, TRUE, TRUE) :
            r \in {{"A", "B", "C", "D"}, {"A", "B", "C", "D", "E"}, Addrs}}

Scenarios == {s \in AllScenarios : RefClosed(s.src, s.sink0)}

\* the scenarios that are also run with faults of the environment
FaultScenarios ==
    {s \in Scenarios : /\ s.src \in {GLeaf, GTree} \/ (s.src = GFlat /\ s.sink0 = {})
                       /\ s.leafFlags = "exact"}

\* the scenarios of the specification with fairness
LiveScenarios ==
    {s \in Scenarios : s.sameVersion /\ s.compressed /\ s.hashes = {"A"} /\ s.sink0 = {}
                        /\ s.src \in {GLeaf, GSelf, GCross} /\ s.leafFlags = "exact"
                        /\ (s.src = GCross => s.chunksPerTF = 2)}

\* the scenarios of the specification of cancellation
CancelScenarios == {s \in LiveScenarios : s.src = GLeaf}

\* ------------------------------------------------------------ state
VARIABLES
    scn,            \* the inputs of NewPuller: source graph, sink, roots, chunksPerTF
    faults,         \* environment faults still allowed
    phase,          \* "init", "ready", "pulling", "returned", "failed", "second"
    puller,         \* NewPuller's result: "none" until it returns, then "ok" or its error
    pullRet,        \* Pull's result: "running", Nil or the error
    ctor2,          \* the result of a second NewPuller after Pull returned, or "none"
    sinkChunks,     \* the chunks visible in the sink (sink.HasMany)
    sinkFiles,      \* ids of the table files the sink accepted through WriteTableFile
    manifest,       \* <<m>> once AddTableFilesToManifest(m) has succeeded, <<>> before
    \* Puller fields and the driver goroutine of Pull
    downloaded, absent, numAbsent, absentBatches, i, nextAbsent, dpc,
    \* getCmp: one call per batch
    batch, toEmit, found, foundClosed, processed, processedClosed,
    fpc, wpc, ppc, seen, curRefs, iErr, iCancel,
    \* table file writers
    wr, writers, completedTables, ctClosed, sema,
    \* processCompletedTables
    cpc, tbl, chunksLen, fileIdToNumChunks, localUploaded, bodyCalls, attemptOk,
    \* the errgroup of Pull
    egErr, ctxDone,
    stats,
    \* emitStats: the rate goroutine, the snapshot goroutine, the done channel, the
    \* snapshot a send is blocked with, the ticks so far, the last snapshot received
    spc, epc, emitDone, pending, ticks, lastStats,
    \* history
    requested, manifestCalls, stageFailed, ctorFaulted, wtfFailed, wtfAfterManifest,
    firstFail,      \* the first failure of the pull: "none", "cancel" or a stage's error
    bodyLen,        \* the content length the last call of the body callback returned
    uploadsStarted, \* the calls of uploadTempTableFile so far, counted as the
                    \* statistics are (Add64)
    removeCalls,    \* the calls of tmpTblFile.read.Remove() so far, likewise
    fileBuffered,   \* what the file in upload has added to bufferedSendBytes
    fileFinished,   \* what the file in upload has added to finishedSendBytes
    unsentBytes,    \* what was added to bufferedSendBytes less what was added to
                    \* finishedSendBytes, as an integer
    emitted,        \* the addresses the walker has passed to its callback
    levelCands,     \* those it has passed since the current level started
    \* IgnorePatterns.IsTableNameIgnored: the receiver, the argument, whether the call
    \* has returned, its results
    ip, tableName, ipc, ignored,
    \* checksInCommon: the arguments, whether the call has returned, its results
    ourChks, theirChks, ancChks, mpc, merged,
    unresolved      \* those not yet given to sink.HasMany or found in p.downloaded since

ignVars == <<ip, tableName, ipc, ignored>>
mrgVars == <<ourChks, theirChks, ancChks, mpc, merged>>
\* what no step of a pull changes: its inputs, and the calls of the functions of the
\* other packages
inVars == <<scn, ignVars, mrgVars>>
envVars == <<sinkChunks, sinkFiles, manifest>>
drvVars == <<downloaded, absent, numAbsent, absentBatches, i, nextAbsent, dpc>>
chanVars == <<found, foundClosed, processed, processedClosed>>
cmpVars == <<batch, toEmit, fpc, wpc, ppc, seen, curRefs, iErr, iCancel>>
wrVars == <<wr, writers, completedTables, ctClosed, sema>>
consVars == <<cpc, tbl, chunksLen, fileIdToNumChunks, localUploaded, bodyCalls,
             attemptOk>>
egVars == <<egErr, ctxDone>>
histVars == <<requested, manifestCalls, stageFailed, ctorFaulted, wtfFailed, wtfAfterManifest,
             firstFail>>
topVars == <<phase, puller, pullRet, ctor2>>
emitVars == <<spc, epc, emitDone, pending, ticks, lastStats>>
upVars == <<bodyLen, uploadsStarted, removeCalls, fileBuffered, fileFinished, unsentBytes>>
lvlVars == <<emitted, levelCands, unresolved>>
auxVars == <<upVars, lvlVars>>

\* the state of NewPuller and Pull
pullVars == <<scn, auxVars, emitVars, faults, topVars, envVars, drvVars, chanVars, cmpVars,
              wrVars, consVars, egVars, stats, histVars>>

vars == <<inVars, auxVars, emitVars, faults, topVars, envVars, drvVars, chanVars, cmpVars, wrVars,
          consVars, egVars, stats, histVars>>

\* ------------------------------------------------------------ helpers
Min(a, b) == IF a < b THEN a ELSE b

\* atomic.AddUint64
Add64(c, n) == (c + n) % CounterMod

\* hash.HashSet / ChunkStore.HasMany: the addresses of hs the store does not hold
HasMany(store, hs) == hs \ store

\* len(c.FullCompressedChunk): every compressed chunk is this long
CmpLen == 2
\* the index and footer Finish appends to a file of n chunks
IndexLen(n) == n + 1

NoWriter == 0
EmptyWriter == [chunks |-> <<>>, finished |-> FALSE, len |-> 0]
FreeIds == (1..MaxWriterIds) \ DOMAIN writers
NewId == CHOOSE n \in FreeIds : \A m \in FreeIds : n <= m

ZeroStats == [finishedSendBytes |-> 0, bufferedSendBytes |-> 0, totalSourceChunks |-> 0,
              fetchedSourceChunks |-> 0, fetchedSourceBytes |-> 0]

PullerInit(scenarios, faulty) ==
    /\ scn \in scenarios
    /\ faults \in 0..(IF scn \in faulty THEN MaxFaults ELSE 0)
    /\ phase = "init" /\ puller = "none" /\ pullRet = "running" /\ ctor2 = "none"
    /\ sinkChunks = scn.sink0 /\ sinkFiles = {} /\ manifest = <<>>
    /\ downloaded = {} /\ absent = {} /\ numAbsent = 0 /\ absentBatches = <<>>
    /\ i = 0 /\ nextAbsent = {} /\ dpc = "idle"
    /\ batch = {} /\ toEmit = {} /\ found = <<>> /\ foundClosed = FALSE
    /\ processed = <<>> /\ processedClosed = FALSE
    /\ fpc = "idle" /\ wpc = "idle" /\ ppc = "idle" /\ seen = 0 /\ curRefs = << >>
    /\ iErr = Nil /\ iCancel = FALSE
    /\ wr = NoWriter /\ writers = << >> /\ completedTables = <<>> /\ ctClosed = FALSE
    /\ sema = 0
    /\ cpc = "idle" /\ tbl = NoWriter /\ chunksLen = 0 /\ fileIdToNumChunks = << >>
    /\ localUploaded = 0 /\ bodyCalls = 0 /\ attemptOk = FALSE
    /\ egErr = Nil /\ ctxDone = FALSE
    /\ stats = ZeroStats
    /\ spc = "idle" /\ epc = "idle" /\ emitDone = FALSE /\ pending = ZeroStats
    /\ ticks = 0 /\ lastStats = ZeroStats
    /\ requested = [a \in Addrs |-> 0] /\ manifestCalls = 0 /\ stageFailed = FALSE /\ firstFail = "none"
    /\ ctorFaulted = FALSE /\ wtfFailed = FALSE /\ wtfAfterManifest = FALSE
    /\ bodyLen = 0 /\ uploadsStarted = 0 /\ removeCalls = 0
    /\ fileBuffered = 0 /\ fileFinished = 0 /\ unsentBytes = 0
    /\ emitted = {} /\ levelCands = {} /\ unresolved = {}

\* no call of IsTableNameIgnored and none of checksInCommon
NoConflict == [conflict |-> FALSE, Table |-> <<>>, TruePatterns |-> <<>>,
               FalsePatterns |-> <<>>]
IgnoreIdle ==
    /\ ip = <<>> /\ tableName = <<>> /\ ipc = "idle"
    /\ ignored = [ret |-> FALSE, err |-> NoConflict]
MergeIdle ==
    /\ ourChks = <<>> /\ theirChks = <<>> /\ ancChks = <<>> /\ mpc = "idle"
    /\ merged = [common |-> <<>>, conflicts |-> <<>>]

InitIn(scenarios, faulty) ==
    /\ PullerInit(scenarios, faulty)
    /\ IgnoreIdle /\ MergeIdle

Init == InitIn(Scenarios, FaultScenarios)
InitLive == InitIn(LiveScenarios, {s \in LiveScenarios : s.src = GLeaf})
InitCancel == InitIn(CancelScenarios, CancelScenarios)

\* ------------------------------------------------------------ NewPuller
\* srcCS.HasMany and sinkCS.HasMany of the root set
SrcHasMany(s, hs) == HasMany(DOMAIN s.src, hs)
SinkHasManyAll(sink, hs) == hs
SinkHasMany(sink, hs) == HasMany(sink, hs)

StartupChecksSinkFirst(s, sink) ==
    IF Cardinality(SinkHasMany(sink, s.hashes)) = 0 THEN ErrDBUpToDate
    ELSE IF Cardinality(SrcHasMany(s, s.hashes)) # 0 THEN ErrNotFound
    ELSE IF ~s.sameVersion THEN ErrVersion
    ELSE IF ~s.compressed THEN ErrIncompatibleSourceChunkStore
    ELSE "ok"

StartupChecksNoUpToDate(s, sink) ==
    IF Cardinality(SrcHasMany(s, s.hashes)) # 0 THEN ErrNotFound
    ELSE IF ~s.sameVersion THEN ErrVersion
    ELSE IF ~s.compressed THEN ErrIncompatibleSourceChunkStore
    ELSE "ok"

StartupChecksNoVersion(s, sink) ==
    IF Cardinality(SrcHasMany(s, s.hashes)) # 0 THEN ErrNotFound
    ELSE IF Cardinality(SinkHasMany(sink, s.hashes)) = 0 THEN ErrDBUpToDate
    ELSE IF ~s.compressed THEN ErrIncompatibleSourceChunkStore
    ELSE "ok"

StartupChecksIfaceFirst(s, sink) ==
    IF Cardinality(SrcHasMany(s, s.hashes)) # 0 THEN ErrNotFound
    ELSE IF Cardinality(SinkHasMany(sink, s.hashes)) = 0 THEN ErrDBUpToDate
    ELSE IF ~s.compressed THEN "ok"
    ELSE IF ~s.sameVersion THEN ErrVersion
    ELSE "ok"

StartupChecksVersionFirst(s, sink) ==
    IF Cardinality(SrcHasMany(s, s.hashes)) # 0 THEN ErrNotFound
    ELSE IF ~s.sameVersion THEN ErrVersion
    ELSE IF Cardinality(SinkHasMany(sink, s.hashes)) = 0 THEN ErrDBUpToDate
    ELSE IF ~s.compressed THEN ErrIncompatibleSourceChunkStore
    ELSE "ok"

\* the four startup checks, in the order of the code; "ok" when all pass
StartupChecks(s, sink) ==
    IF Cardinality(SrcHasMany(s, s.hashes)) # 0 THEN ErrNotFound
    ELSE IF Cardinality(SinkHasMany(sink, s.hashes)) = 0 THEN ErrDBUpToDate
    ELSE IF ~s.sameVersion THEN ErrVersion
    ELSE IF ~s.compressed THEN ErrIncompatibleSourceChunkStore
    ELSE "ok"

\* the error a failing store call makes NewPuller return, by the place it has reached
CtorFaults(s, sink) ==
    {ErrSrcHasMany}
    \cup (IF SrcHasMany(s, s.hashes) = {} THEN {ErrSinkHasMany} ELSE {})
    \cup (IF StartupChecks(s, sink) = "ok" THEN {ErrNewWriter} ELSE {})

NewPullerWriterFirst ==
    /\ phase = "init"
    /\ \E f \in BOOLEAN :
         IF f
         THEN /\ faults > 0
              /\ faults' = faults - 1
              /\ puller' \in CtorFaults(scn, sinkChunks)
              /\ ctorFaulted' = TRUE
         ELSE /\ puller' = StartupChecks(scn, sinkChunks)
              /\ UNCHANGED <<faults, ctorFaulted>>
    /\ wr' = NewId
    /\ writers' = (NewId :> EmptyWriter) @@ writers
    /\ phase' = (IF puller' = "ok" THEN "ready" ELSE "failed")
    \* p.hashes, p.downloaded, p.tablefileSema, p.stats of the new Puller are Init's values
    /\ UNCHANGED <<inVars, auxVars, emitVars, pullRet, ctor2, envVars, drvVars, chanVars, cmpVars,
                   completedTables, ctClosed, sema, consVars, egVars, stats,
                   requested, manifestCalls, stageFailed, firstFail, wtfFailed, wtfAfterManifest>>

NewPuller ==
    /\ phase = "init"
    /\ \E f \in BOOLEAN :
         IF f
         THEN /\ faults > 0
              /\ faults' = faults - 1
              /\ puller' \in CtorFaults(scn, sinkChunks)
              /\ ctorFaulted' = TRUE
         ELSE /\ puller' = StartupChecks(scn, sinkChunks)
              /\ UNCHANGED <<faults, ctorFaulted>>
    /\ IF puller' = "ok"
       THEN /\ phase' = "ready"
            /\ wr' = NewId
            /\ writers' = (NewId :> EmptyWriter) @@ writers
       ELSE /\ phase' = "failed"
            /\ UNCHANGED <<wr, writers>>
    \* p.hashes, p.downloaded, p.tablefileSema, p.stats of the new Puller are Init's values
    /\ UNCHANGED <<inVars, auxVars, emitVars, pullRet, ctor2, envVars, drvVars, chanVars, cmpVars,
                   completedTables, ctClosed, sema, consVars, egVars, stats,
                   requested, manifestCalls, stageFailed, firstFail, wtfFailed, wtfAfterManifest>>

\* ------------------------------------------------------------ Pull
\* Pull up to eg.Go: absent := p.hashes, the errgroup, the channel, the two goroutines
PullStart ==
    /\ phase = "ready"
    /\ phase' = "pulling"
    /\ absent' = scn.hashes
    /\ dpc' = "acquire"
    /\ cpc' = "recv"
    /\ IF scn.statsCh
       THEN spc' = "run" /\ epc' = "wait"
       ELSE UNCHANGED <<spc, epc>>
    /\ UNCHANGED <<inVars, auxVars, emitDone, pending, ticks, lastStats, faults, puller, pullRet, ctor2, envVars, downloaded, numAbsent,
                   absentBatches, i, nextAbsent, chanVars, cmpVars, wrVars, tbl, chunksLen,
                   fileIdToNumChunks, localUploaded, bodyCalls, attemptOk, egVars, stats,
                   histVars>>

\* history: the first thing that went wrong in the pull
FirstFail(err) == firstFail' = (IF firstFail = "none" THEN err ELSE firstFail)

\* a goroutine of Pull's errgroup returns err: the first error is kept and cancels ctx
EgErrLast(err) == err
EgErr(err) == IF egErr = Nil THEN err ELSE egErr
EgDone(err) == ctxDone \/ err # Nil

\* a goroutine of getCmp's errgroup returns err
InnerErrLast(err) == err
InnerErr(err) == IF iErr = Nil THEN err ELSE iErr
InnerCancel(err) == iCancel \/ err # Nil
\* getCmp's context is derived from Pull's
InnerDone == iCancel \/ ctxDone

\* ------------------------------------------------------------ limitToNewChunks
\* the orders in which a range over the set s can visit it
Orders(s) == {f \in [1..Cardinality(s) -> s] : \A x, y \in DOMAIN f : x # y => f[x] # f[y]}

BatchesOfOne(ord, size) == <<{ord[k] : k \in 1..Len(ord)}>>

\* the batches the loop of the else branch builds when it visits the new addresses in
\* the order ord: a new batch is opened whenever totalAbsent reaches a multiple of size
BatchesOf(ord, size) ==
    [j \in 1..((Len(ord) \div size) + 1) |->
        {ord[k] : k \in ((j - 1) * size + 1)..Min(j * size, Len(ord))}]

\* limitToNewChunks(absent, downloaded, maxBatchSize): the possible outcomes, each with
\* the count and the batches returned and the two sets as the call leaves them
limitToNewChunks(abs, dl, maxSize) ==
    IF Cardinality(abs) < maxSize
    THEN {[n |-> Cardinality(abs \ dl), batches |-> <<abs \ dl>>,
           absent |-> abs \ dl, downloaded |-> dl]}
    ELSE LET numBatches == (Cardinality(abs) \div maxSize) + 1
             batchSize == (Cardinality(abs) \div numBatches) + 1
             new == abs \ dl
         IN  {[n |-> Cardinality(new), batches |-> BatchesOf(ord, batchSize),
               absent |-> abs, downloaded |-> dl \cup new] : ord \in Orders(new)}

\* ------------------------------------------------------------ the driver goroutine
DriverReturn(err) ==
    /\ dpc' = "done"
    /\ egErr' = EgErr(err)
    /\ ctxDone' = EgDone(err)

\* p.tablefileSema.Acquire(ctx, 1) for the writer NewPuller made; numAbsent := len(absent)
DriverAcquire ==
    /\ dpc = "acquire"
    /\ sema < outstandingTableFiles
    /\ sema' = sema + 1
    /\ numAbsent' = Cardinality(absent)
    /\ dpc' = "loop"
    /\ UNCHANGED <<inVars, auxVars, emitVars, faults, topVars, envVars, downloaded, absent, absentBatches, i,
                   nextAbsent, chanVars, cmpVars, wr, writers, completedTables, ctClosed,
                   consVars, egVars, stats, histVars>>

\* for numAbsent > 0 { numAbsent, absentBatches = limitToNewChunks(...) ... }
DriverLevel ==
    /\ dpc = "loop"
    /\ IF numAbsent > 0
       THEN \E r \in limitToNewChunks(absent, downloaded, maxBatchSize) :
              /\ numAbsent' = r.n
              /\ absentBatches' = r.batches
              /\ absent' = r.absent
              /\ downloaded' = r.downloaded
              /\ nextAbsent' = {}
              /\ levelCands' = {}
              /\ unresolved' = unresolved \ (absent \cap downloaded)
              /\ i' = 0
              /\ dpc' = "batch"
       ELSE /\ dpc' = "flush"
            /\ UNCHANGED <<numAbsent, absentBatches, absent, downloaded, nextAbsent, i,
                           levelCands, unresolved>>
    /\ UNCHANGED <<inVars, upVars, emitted, emitVars, faults, topVars, envVars, chanVars, cmpVars, wrVars, consVars,
                   egVars, stats, histVars>>

\* history: one more request of each address of b, counted up to 2
Requested(b) == [a \in Addrs |-> IF a \in b THEN Min(requested[a] + 1, 2) ELSE requested[a]]

DriverHasManyNoTotal(capped) ==
    /\ dpc = "batch"
    /\ i < Len(absentBatches)
    /\ LET b == SinkHasMany(sinkChunks, absentBatches[i + 1])
       IN  /\ absentBatches' = [absentBatches EXCEPT ![i + 1] = b]
           /\ unresolved' = unresolved \ absentBatches[i + 1]
           /\ IF Cardinality(b) > 0
              THEN /\ capped => stats.totalSourceChunks + Cardinality(b) <= MaxSourceChunks
                   /\ batch' = b
                   /\ toEmit' = b
                   /\ found' = <<>> /\ foundClosed' = FALSE
                   /\ processed' = <<>> /\ processedClosed' = FALSE
                   /\ seen' = 0 /\ curRefs' = << >>
                   /\ iErr' = Nil /\ iCancel' = FALSE
                   /\ fpc' = "run" /\ wpc' = "recv" /\ ppc' = "recv"
                   /\ stats' = stats
                   /\ requested' = Requested(b)
                   /\ dpc' = "getcmp"
                   /\ UNCHANGED i
              ELSE /\ i' = i + 1
                   /\ UNCHANGED <<chanVars, cmpVars, stats, requested, dpc>>
    /\ UNCHANGED <<inVars, upVars, emitted, levelCands, emitVars, faults, topVars, envVars, downloaded, absent, numAbsent,
                   nextAbsent, wrVars, consVars, egVars, manifestCalls, stageFailed, firstFail,
                   ctorFaulted, wtfFailed, wtfAfterManifest>>

\* one turn of the batch loop: sink.HasMany on absentBatches[i], then, for a batch that is
\* not empty, the start of getCmp: the channels, totalSourceChunks and the three goroutines
DriverHasMany(capped) ==
    /\ dpc = "batch"
    /\ i < Len(absentBatches)
    /\ LET b == SinkHasMany(sinkChunks, absentBatches[i + 1])
       IN  /\ absentBatches' = [absentBatches EXCEPT ![i + 1] = b]
           /\ unresolved' = unresolved \ absentBatches[i + 1]
           /\ IF Cardinality(b) > 0
              THEN /\ capped => stats.totalSourceChunks + Cardinality(b) <= MaxSourceChunks
                   /\ batch' = b
                   /\ toEmit' = b
                   /\ found' = <<>> /\ foundClosed' = FALSE
                   /\ processed' = <<>> /\ processedClosed' = FALSE
                   /\ seen' = 0 /\ curRefs' = << >>
                   /\ iErr' = Nil /\ iCancel' = FALSE
                   /\ fpc' = "run" /\ wpc' = "recv" /\ ppc' = "recv"
                   /\ stats' = [stats EXCEPT !.totalSourceChunks = Add64(@, Cardinality(b))]
                   /\ requested' = Requested(b)
                   /\ dpc' = "getcmp"
                   /\ UNCHANGED i
              ELSE /\ i' = i + 1
                   /\ UNCHANGED <<chanVars, cmpVars, stats, requested, dpc>>
    /\ UNCHANGED <<inVars, upVars, emitted, levelCands, emitVars, faults, topVars, envVars, downloaded, absent, numAbsent,
                   nextAbsent, wrVars, consVars, egVars, manifestCalls, stageFailed, firstFail,
                   ctorFaulted, wtfFailed, wtfAfterManifest>>

\* sink.HasMany returns an error: a fault of the sink, or ctx's error once ctx is done
DriverHasManyFails ==
    /\ dpc = "batch"
    /\ i < Len(absentBatches)
    /\ \/ /\ faults > 0
          /\ faults' = faults - 1
          /\ stageFailed' = TRUE /\ FirstFail(ErrSinkHasMany)
          /\ DriverReturn(ErrSinkHasMany)
       \/ /\ ctxDone
          /\ UNCHANGED <<faults, stageFailed, firstFail>>
          /\ DriverReturn(ErrCanceled)
    /\ UNCHANGED <<inVars, auxVars, emitVars, topVars, envVars, downloaded, absent, numAbsent, absentBatches,
                   i, nextAbsent, chanVars, cmpVars, wrVars, consVars, stats, requested,
                   manifestCalls, ctorFaulted, wtfFailed, wtfAfterManifest>>

\* getCmp's eg.Wait() returns; on success the check of len(nextAbsent) against 64*1024:
\* limitToNewChunks is called for its effect on p.downloaded, its results are dropped,
\* the batch loop starts again at absentBatches[0] and nextAbsent is emptied
DriverGetCmpReturns ==
    /\ dpc = "getcmp"
    /\ fpc = "done" /\ wpc = "done" /\ ppc = "done"
    /\ IF iErr # Nil
       THEN /\ DriverReturn(iErr)
            /\ UNCHANGED <<downloaded, i, nextAbsent>>
       ELSE /\ dpc' = "batch"
            /\ UNCHANGED egVars
            /\ IF Cardinality(nextAbsent) >= maxBatchSize
               THEN /\ \E r \in limitToNewChunks(nextAbsent, downloaded, maxBatchSize) :
                         downloaded' = r.downloaded
                    /\ i' = 0
                    /\ nextAbsent' = {}
               ELSE /\ i' = i + 1
                    /\ UNCHANGED <<downloaded, nextAbsent>>
    /\ UNCHANGED <<inVars, auxVars, emitVars, faults, topVars, envVars, absent, numAbsent, absentBatches,
                   chanVars, cmpVars, wrVars, consVars, stats, histVars>>

\* the batch loop is over: absent = nextAbsent
DriverLevelEnd ==
    /\ dpc = "batch"
    /\ i >= Len(absentBatches)
    /\ absent' = nextAbsent
    /\ dpc' = "loop"
    /\ UNCHANGED <<inVars, auxVars, emitVars, faults, topVars, envVars, downloaded, numAbsent, absentBatches,
                   i, nextAbsent, chanVars, cmpVars, wrVars, consVars, egVars, stats,
                   histVars>>

ChunkCount(w) == Len(writers[w].chunks)

DriverFlushSkips ==
    /\ dpc = "flush"
    /\ dpc' = "close"
    /\ UNCHANGED <<inVars, auxVars, emitVars, faults, topVars, envVars, downloaded, absent, numAbsent,
                   absentBatches, i, nextAbsent, chanVars, cmpVars, wrVars, consVars,
                   egVars, stats, histVars>>

\* if p.wr != nil && p.wr.ChunkCount() > 0 { completedTables <- FilledWriters{p.wr} }
DriverFlush ==
    /\ dpc = "flush"
    /\ IF wr # NoWriter /\ ChunkCount(wr) > 0
       THEN /\ Len(completedTables) < CompletedCap
            /\ completedTables' = Append(completedTables, wr)
       ELSE UNCHANGED completedTables
    /\ dpc' = "close"
    /\ UNCHANGED <<inVars, auxVars, emitVars, faults, topVars, envVars, downloaded, absent, numAbsent,
                   absentBatches, i, nextAbsent, chanVars, cmpVars, wr, writers, ctClosed,
                   sema, consVars, egVars, stats, histVars>>

\* close(completedTables); return nil
DriverClose ==
    /\ dpc = "close"
    /\ ctClosed' = TRUE
    /\ DriverReturn(Nil)
    /\ UNCHANGED <<inVars, auxVars, emitVars, faults, topVars, envVars, downloaded, absent, numAbsent,
                   absentBatches, i, nextAbsent, chanVars, cmpVars, wr, writers,
                   completedTables, sema, consVars, stats, histVars>>

DriverCancelledCloses ==
    /\ ctxDone
    /\ \/ dpc = "acquire"
       \/ dpc = "flush" /\ wr # NoWriter /\ ChunkCount(wr) > 0
    /\ DriverReturn(ErrCanceled)
    /\ ctClosed' = TRUE
    /\ UNCHANGED <<inVars, auxVars, emitVars, faults, topVars, envVars, downloaded, absent, numAbsent,
                   absentBatches, i, nextAbsent, chanVars, cmpVars, wr, writers, completedTables, sema, consVars,
                   stats, histVars>>

\* the <-ctx.Done() case of the final send, and Acquire's error once ctx is done
DriverCancelled ==
    /\ ctxDone
    /\ \/ dpc = "acquire"
       \/ dpc = "flush" /\ wr # NoWriter /\ ChunkCount(wr) > 0
    /\ DriverReturn(ErrCanceled)
    /\ UNCHANGED <<inVars, auxVars, emitVars, faults, topVars, envVars, downloaded, absent, numAbsent,
                   absentBatches, i, nextAbsent, chanVars, cmpVars, wrVars, consVars,
                   stats, histVars>>

\* ------------------------------------------------------------ getCmp: the fetch goroutine
\* the callback of GetManyCompressed for one chunk of the batch (the source's workers
\* emit in any order): the two counters, then found <- c, or nothing once ctx is done
FetchEmit ==
    /\ fpc = "run"
    /\ \E a \in toEmit \cap DOMAIN scn.src :
         /\ toEmit' = toEmit \ {a}
         /\ stats' = [stats EXCEPT !.fetchedSourceBytes = Add64(@, CmpLen),
                                   !.fetchedSourceChunks = Add64(@, 1)]
         /\ \/ /\ Len(found) < FoundCap
               /\ found' = Append(found, a)
            \/ /\ InnerDone
               /\ UNCHANGED found
    /\ UNCHANGED <<inVars, auxVars, emitVars, faults, topVars, envVars, drvVars, foundClosed, processed,
                   processedClosed, batch, fpc, wpc, ppc, seen, curRefs, iErr, iCancel,
                   wrVars, consVars, egVars, histVars>>

\* GetManyCompressed returns nil: close(found)
FetchReturns ==
    /\ fpc = "run"
    /\ toEmit = {}
    /\ foundClosed' = TRUE
    /\ fpc' = "done"
    /\ UNCHANGED <<inVars, auxVars, emitVars, faults, topVars, envVars, drvVars, found, processed,
                   processedClosed, batch, toEmit, wpc, ppc, seen, curRefs, iErr, iCancel,
                   wrVars, consVars, egVars, stats, histVars>>

\* GetManyCompressed returns an error: a fault of the source, or ctx's error
FetchFails ==
    /\ fpc = "run"
    /\ \E err \in {ErrGetMany, ErrCanceled} :
         /\ IF err = ErrGetMany
            THEN faults > 0 /\ faults' = faults - 1 /\ stageFailed' = TRUE
                 /\ FirstFail(ErrGetMany)
            ELSE InnerDone /\ UNCHANGED <<faults, stageFailed, firstFail>>
         /\ iErr' = InnerErr(err)
         /\ iCancel' = InnerCancel(err)
    /\ fpc' = "done"
    /\ UNCHANGED <<inVars, auxVars, emitVars, topVars, envVars, drvVars, chanVars, batch, toEmit, wpc, ppc,
                   seen, curRefs, wrVars, consVars, egVars, stats, requested,
                   manifestCalls, ctorFaulted, wtfFailed, wtfAfterManifest>>

\* a fault of the source: it returns without having emitted one chunk of the batch
FetchSkips ==
    /\ fpc = "run"
    /\ faults > 0
    /\ faults' = faults - 1
    /\ \E a \in toEmit : toEmit' = toEmit \ {a}
    /\ UNCHANGED <<inVars, auxVars, emitVars, topVars, envVars, drvVars, chanVars, batch, fpc, wpc, ppc, seen,
                   curRefs, iErr, iCancel, wrVars, consVars, egVars, stats, histVars>>

\* ------------------------------------------------------------ getCmp: the walk goroutine
\* the references p.waf reports for a chunk: the leaf flag is stored and never read
WalkAddrsNone(a) == {}
WalkAddrs(a) == scn.src[a]
\* the flag the walker passes with the address h
LeafFlag(h) ==
    CASE scn.leafFlags = "always" -> TRUE
      [] scn.leafFlags = "never" -> FALSE
      [] OTHER -> h \in DOMAIN scn.src /\ scn.src[h] = {}
\* refs := make(map[hash.Hash]bool); p.waf(chnk, func(h, isleaf) { refs[h] = isleaf })
WalkRefs(a) == [h \in WalkAddrs(a) |-> LeafFlag(h)]

\* one chunk off found: ToChunk, p.waf, processed <- CmpChnkAndRefs{...}
WalkChunk ==
    /\ wpc = "recv"
    /\ found # <<>>
    /\ Len(processed) < ProcessedCap
    /\ found' = Tail(found)
    /\ processed' = Append(processed, [h |-> Head(found), refs |-> WalkRefs(Head(found))])
    /\ emitted' = emitted \cup WalkAddrs(Head(found))
    /\ levelCands' = levelCands \cup WalkAddrs(Head(found))
    /\ unresolved' = unresolved \cup WalkAddrs(Head(found))
    /\ UNCHANGED <<inVars, upVars, emitVars, faults, topVars, envVars, drvVars, foundClosed, processedClosed,
                   cmpVars, wrVars, consVars, egVars, stats, histVars>>

\* ToChunk or p.waf fails on the chunk
WalkFails ==
    /\ wpc = "recv"
    /\ found # <<>>
    /\ faults > 0
    /\ faults' = faults - 1
    /\ stageFailed' = TRUE
    /\ found' = Tail(found)
    /\ \E err \in {ErrToChunk, ErrWalk} :
         /\ FirstFail(err)
         /\ iErr' = InnerErr(err)
         /\ iCancel' = InnerCancel(err)
    /\ wpc' = "done"
    /\ UNCHANGED <<inVars, auxVars, emitVars, topVars, envVars, drvVars, foundClosed, processed,
                   processedClosed, batch, toEmit, fpc, ppc, seen, curRefs, wrVars,
                   consVars, egVars, stats, requested, manifestCalls, ctorFaulted,
                   wtfFailed, wtfAfterManifest>>

\* found is closed and drained: close(processed); return nil
WalkReturns ==
    /\ wpc = "recv"
    /\ found = <<>> /\ foundClosed
    /\ processedClosed' = TRUE
    /\ wpc' = "done"
    /\ UNCHANGED <<inVars, auxVars, emitVars, faults, topVars, envVars, drvVars, found, foundClosed,
                   processed, batch, toEmit, fpc, ppc, seen, curRefs, iErr, iCancel,
                   wrVars, consVars, egVars, stats, histVars>>

\* <-ctx.Done(): return ctx.Err()
WalkCancelled ==
    /\ wpc = "recv"
    /\ InnerDone
    /\ iErr' = InnerErr(ErrCanceled)
    /\ iCancel' = TRUE
    /\ wpc' = "done"
    /\ UNCHANGED <<inVars, auxVars, emitVars, faults, topVars, envVars, drvVars, chanVars, batch, toEmit, fpc,
                   ppc, seen, curRefs, wrVars, consVars, egVars, stats, histVars>>

\* ------------------------------------------------------------ getCmp: the pack goroutine
PackReturn(err) ==
    /\ ppc' = "done"
    /\ iErr' = InnerErr(err)
    /\ iCancel' = InnerCancel(err)

\* CmpChunkTableWriter.AddCmpChunk
AddCmpChunk(w, a) == [w EXCEPT !.chunks = Append(@, a), !.len = @ + CmpLen]

\* if p.wr.ChunkCount() >= p.chunksPerTF
WriterFullAlways(n) == n >= 1
WriterFull(n) == n >= scn.chunksPerTF

\* for h, isleaf := range cmpAndRef.refs { nextLevel.Insert(h) }
NextLevelNonLeaves(refs) == {h \in DOMAIN refs : ~refs[h]}
NextLevelOf(refs) == DOMAIN refs

\* one record off processed: seen++, AddCmpChunk, bufferedSendBytes; a writer that has
\* reached chunksPerTF is rotated before the references go to nextLevel
PackChunk ==
    /\ ppc = "recv"
    /\ processed # <<>>
    /\ wr # NoWriter
    /\ LET c == Head(processed)
       IN  /\ processed' = Tail(processed)
           /\ seen' = seen + 1
           /\ writers' = [writers EXCEPT ![wr] = AddCmpChunk(@, c.h)]
           /\ stats' = [stats EXCEPT !.bufferedSendBytes = Add64(@, CmpLen)]
           /\ unsentBytes' = unsentBytes + CmpLen
           /\ IF WriterFull(Len(writers'[wr].chunks))
              THEN /\ ppc' = "send"
                   /\ curRefs' = c.refs
                   /\ UNCHANGED nextAbsent
              ELSE /\ nextAbsent' = nextAbsent \cup NextLevelOf(c.refs)
                   /\ UNCHANGED <<ppc, curRefs>>
    /\ UNCHANGED <<inVars, bodyLen, uploadsStarted, removeCalls, fileBuffered, fileFinished,
                   lvlVars, emitVars, faults, topVars, envVars, downloaded, absent, numAbsent,
                   absentBatches, i, dpc, found, foundClosed, processedClosed, batch,
                   toEmit, fpc, wpc, iErr, iCancel, wr, completedTables, ctClosed, sema,
                   consVars, egVars, histVars>>

\* AddCmpChunk fails
PackAddFails ==
    /\ ppc = "recv"
    /\ processed # <<>>
    /\ faults > 0
    /\ faults' = faults - 1
    /\ stageFailed' = TRUE /\ FirstFail(ErrAddCmpChunk)
    /\ processed' = Tail(processed)
    /\ seen' = seen + 1
    /\ PackReturn(ErrAddCmpChunk)
    /\ UNCHANGED <<inVars, auxVars, emitVars, topVars, envVars, drvVars, found, foundClosed, processedClosed,
                   batch, toEmit, fpc, wpc, curRefs, wrVars, consVars, egVars, stats,
                   requested, manifestCalls, ctorFaulted, wtfFailed, wtfAfterManifest>>

PackSendKeepsWriter ==
    /\ ppc = "send"
    /\ Len(completedTables) < CompletedCap
    /\ completedTables' = Append(completedTables, wr)
    /\ ppc' = "recv"
    /\ UNCHANGED <<inVars, auxVars, emitVars, faults, topVars, envVars, drvVars, chanVars, batch,
                   toEmit, fpc, wpc, seen, curRefs, iErr, iCancel, wr, writers, ctClosed,
                   sema, consVars, egVars, stats, histVars>>

\* completedTables <- FilledWriters{p.wr}; p.wr = nil
PackSend ==
    /\ ppc = "send"
    /\ Len(completedTables) < CompletedCap
    /\ completedTables' = Append(completedTables, wr)
    /\ wr' = NoWriter
    /\ ppc' = "acquire"
    /\ UNCHANGED <<inVars, auxVars, emitVars, faults, topVars, envVars, drvVars, chanVars, batch, toEmit, fpc,
                   wpc, seen, curRefs, iErr, iCancel, writers, ctClosed, sema, consVars,
                   egVars, stats, histVars>>

PackAcquireUnbounded ==
    /\ ppc = "acquire"
    /\ sema' = sema + 1
    /\ ppc' = "newwr"
    /\ UNCHANGED <<inVars, auxVars, emitVars, faults, topVars, envVars, drvVars, chanVars, batch,
                   toEmit, fpc, wpc, seen, curRefs, iErr, iCancel, wr, writers,
                   completedTables, ctClosed, consVars, egVars, stats, histVars>>

PackAcquireFree ==
    /\ ppc = "acquire"
    /\ ppc' = "newwr"
    /\ UNCHANGED <<inVars, auxVars, emitVars, faults, topVars, envVars, drvVars, chanVars, batch,
                   toEmit, fpc, wpc, seen, curRefs, iErr, iCancel, wrVars, consVars, egVars,
                   stats, histVars>>

\* p.tablefileSema.Acquire(ctx, 1)
PackAcquire ==
    /\ ppc = "acquire"
    /\ sema < outstandingTableFiles
    /\ sema' = sema + 1
    /\ ppc' = "newwr"
    /\ UNCHANGED <<inVars, auxVars, emitVars, faults, topVars, envVars, drvVars, chanVars, batch, toEmit, fpc,
                   wpc, seen, curRefs, iErr, iCancel, wr, writers, completedTables,
                   ctClosed, consVars, egVars, stats, histVars>>

PackNewWriterDropsRefs ==
    /\ ppc = "newwr"
    /\ FreeIds # {}
    /\ wr' = NewId
    /\ writers' = (NewId :> EmptyWriter) @@ writers
    /\ ppc' = "recv"
    /\ UNCHANGED <<inVars, auxVars, emitVars, faults, topVars, envVars, drvVars, chanVars, batch,
                   toEmit, fpc, wpc, seen, curRefs, iErr, iCancel, completedTables, ctClosed,
                   sema, consVars, egVars, stats, histVars>>

\* p.wr, err = nbs.NewCmpChunkTableWriter(p.tempDir), then the references of the chunk
PackNewWriter ==
    /\ ppc = "newwr"
    /\ FreeIds # {}
    /\ wr' = NewId
    /\ writers' = (NewId :> EmptyWriter) @@ writers
    /\ nextAbsent' = nextAbsent \cup NextLevelOf(curRefs)
    /\ ppc' = "recv"
    /\ UNCHANGED <<inVars, auxVars, emitVars, faults, topVars, envVars, downloaded, absent, numAbsent,
                   absentBatches, i, dpc, chanVars, batch, toEmit, fpc, wpc, seen, curRefs,
                   iErr, iCancel, completedTables, ctClosed, sema, consVars, egVars, stats,
                   histVars>>

\* NewCmpChunkTableWriter fails
PackNewWriterFails ==
    /\ ppc = "newwr"
    /\ faults > 0
    /\ faults' = faults - 1
    /\ stageFailed' = TRUE /\ FirstFail(ErrNewWriter)
    /\ PackReturn(ErrNewWriter)
    /\ UNCHANGED <<inVars, auxVars, emitVars, topVars, envVars, drvVars, chanVars, batch, toEmit, fpc, wpc,
                   seen, curRefs, wrVars, consVars, egVars, stats, requested,
                   manifestCalls, ctorFaulted, wtfFailed, wtfAfterManifest>>

\* if seen != len(batch)
SeenMismatchIgnored(n, b) == FALSE
SeenMismatch(n, b) == n # Cardinality(b)

\* processed is closed and drained: the check of seen against len(batch)
PackReturns ==
    /\ ppc = "recv"
    /\ processed = <<>> /\ processedClosed
    /\ IF SeenMismatch(seen, batch)
       THEN PackReturn(ErrIncomplete) /\ stageFailed' = TRUE /\ FirstFail(ErrIncomplete)
       ELSE PackReturn(Nil) /\ UNCHANGED <<stageFailed, firstFail>>
    /\ UNCHANGED <<inVars, auxVars, emitVars, faults, topVars, envVars, drvVars, chanVars, batch, toEmit, fpc,
                   wpc, seen, curRefs, wrVars, consVars, egVars, stats, requested,
                   manifestCalls, ctorFaulted, wtfFailed, wtfAfterManifest>>

\* <-ctx.Done() in the receive and in the send, and Acquire's error: return ctx.Err()
PackCancelled ==
    /\ ppc \in {"recv", "send", "acquire"}
    /\ InnerDone
    /\ PackReturn(ErrCanceled)
    /\ UNCHANGED <<inVars, auxVars, emitVars, faults, topVars, envVars, drvVars, chanVars, batch, toEmit, fpc,
                   wpc, seen, curRefs, wrVars, consVars, egVars, stats, histVars>>

\* ------------------------------------------------------------ processCompletedTables
ConsReturn(err) ==
    /\ cpc' = "done"
    /\ egErr' = EgErr(err)
    /\ ctxDone' = EgDone(err)

\* tblFile, ok := <-completedTables with ok: p.tablefileSema.Release(1)
ConsReceive ==
    /\ cpc = "recv"
    /\ completedTables # <<>>
    /\ tbl' = Head(completedTables)
    /\ completedTables' = Tail(completedTables)
    /\ sema' = sema - 1
    /\ cpc' = "finish"
    /\ UNCHANGED <<inVars, auxVars, emitVars, faults, topVars, envVars, drvVars, chanVars, cmpVars, wr,
                   writers, ctClosed, chunksLen, fileIdToNumChunks, localUploaded,
                   bodyCalls, attemptOk, egVars, stats, histVars>>

\* the channel is closed and drained: break LOOP
ConsClosed ==
    /\ cpc = "recv"
    /\ completedTables = <<>> /\ ctClosed
    /\ cpc' = "manifest"
    /\ UNCHANGED <<inVars, auxVars, emitVars, faults, topVars, envVars, drvVars, chanVars, cmpVars, wrVars,
                   tbl, chunksLen, fileIdToNumChunks, localUploaded, bodyCalls, attemptOk, egVars,
                   stats, histVars>>

\* case <-ctx.Done(): return ctx.Err()
ConsCancelled ==
    /\ cpc = "recv"
    /\ ctxDone
    /\ ConsReturn(ErrCanceled)
    /\ UNCHANGED <<inVars, auxVars, emitVars, faults, topVars, envVars, drvVars, chanVars, cmpVars, wrVars,
                   tbl, chunksLen, fileIdToNumChunks, localUploaded, bodyCalls, attemptOk, stats,
                   histVars>>

\* CmpChunkTableWriter.Finish: the index and the footer are appended
Finish(w) == [w EXCEPT !.finished = TRUE, !.len = @ + IndexLen(Len(w.chunks))]

\* chunksLen := ContentLength(); Finish(); the tempTblFile; WriteTableFile is entered
ConsFinish ==
    /\ cpc = "finish"
    /\ chunksLen' = writers[tbl].len
    /\ writers' = [writers EXCEPT ![tbl] = Finish(@)]
    /\ localUploaded' = 0
    /\ bodyCalls' = 0
    /\ attemptOk' = FALSE
    /\ wtfAfterManifest' = (wtfAfterManifest \/ manifestCalls > 0)
    /\ cpc' = "upload"
    /\ uploadsStarted' = Add64(uploadsStarted, 1)
    /\ bodyLen' = 0
    /\ fileBuffered' = writers[tbl].len
    /\ fileFinished' = 0
    /\ UNCHANGED <<inVars, unsentBytes, removeCalls, lvlVars, emitVars, faults, topVars, envVars, drvVars, chanVars, cmpVars, wr,
                   completedTables, ctClosed, sema, tbl, fileIdToNumChunks, egVars, stats,
                   requested, manifestCalls, stageFailed, firstFail, ctorFaulted, wtfFailed>>

\* Finish fails
ConsFinishFails ==
    /\ cpc = "finish"
    /\ faults > 0
    /\ faults' = faults - 1
    /\ stageFailed' = TRUE /\ FirstFail(ErrFinish)
    /\ ConsReturn(ErrFinish)
    /\ UNCHANGED <<inVars, auxVars, emitVars, topVars, envVars, drvVars, chanVars, cmpVars, wrVars, tbl,
                   chunksLen, fileIdToNumChunks, localUploaded, bodyCalls, attemptOk, stats,
                   requested, manifestCalls, ctorFaulted, wtfFailed, wtfAfterManifest>>

\* the tempTblFile of the writer in upload
FileId == writers[tbl].chunks
FileSizeBeforeFinish == chunksLen
FileSize == writers[tbl].len

ConsBodyNoRebuffer ==
    /\ cpc = "upload"
    /\ bodyCalls < MaxBodyCalls
    /\ bodyCalls > 0 => ~attemptOk
    /\ bodyCalls' = bodyCalls + 1
    /\ \E n \in 0..FileSize, ok \in BOOLEAN :
         /\ n < FileSize => ~ok
         /\ IF ok
            THEN UNCHANGED faults
            ELSE faults > 0 /\ faults' = faults - 1
         /\ attemptOk' = ok
         /\ localUploaded' = n
         /\ stats' = [stats EXCEPT
                        !.bufferedSendBytes =
                            IF localUploaded = 0
                            THEN Add64(@, FileSize - chunksLen)
                            ELSE @,
                        !.finishedSendBytes = Add64(@, n)]
         /\ fileBuffered' = fileBuffered + (IF localUploaded = 0
                                            THEN FileSize - chunksLen
                                            ELSE 0)
         /\ fileFinished' = fileFinished + n
         /\ unsentBytes' = unsentBytes - n + (IF localUploaded = 0
                                              THEN FileSize - chunksLen
                                              ELSE 0)
    /\ bodyLen' = FileSize
    /\ UNCHANGED <<inVars, uploadsStarted, removeCalls, lvlVars, emitVars, topVars, envVars, drvVars, chanVars, cmpVars, wrVars, cpc, tbl,
                   chunksLen, fileIdToNumChunks, egVars, histVars>>

\* the sink invokes the body callback of WriteTableFile (the first time, or again after
\* an attempt that failed) and reads n bytes through the countingReader it returns; an
\* attempt that stops short of the whole body, or fails after it, is a fault of the sink
ConsBody ==
    /\ cpc = "upload"
    /\ bodyCalls < MaxBodyCalls
    /\ bodyCalls > 0 => ~attemptOk
    /\ bodyCalls' = bodyCalls + 1
    /\ \E n \in 0..FileSize, ok \in BOOLEAN :
         /\ n < FileSize => ~ok
         /\ IF ok
            THEN UNCHANGED faults
            ELSE faults > 0 /\ faults' = faults - 1
         /\ attemptOk' = ok
         /\ localUploaded' = n
         /\ stats' = [stats EXCEPT
                        !.bufferedSendBytes =
                            IF localUploaded = 0
                            THEN Add64(@, FileSize - chunksLen)
                            ELSE Add64(@, localUploaded),
                        !.finishedSendBytes = Add64(@, n)]
         /\ fileBuffered' = fileBuffered + (IF localUploaded = 0
                                            THEN FileSize - chunksLen
                                            ELSE localUploaded)
         /\ fileFinished' = fileFinished + n
         /\ unsentBytes' = unsentBytes - n + (IF localUploaded = 0
                                              THEN FileSize - chunksLen
                                              ELSE localUploaded)
    /\ bodyLen' = FileSize
    /\ UNCHANGED <<inVars, uploadsStarted, removeCalls, lvlVars, emitVars, topVars, envVars, drvVars, chanVars, cmpVars, wrVars, cpc, tbl,
                   chunksLen, fileIdToNumChunks, egVars, histVars>>

\* tmpTblFile.read.Remove(): the temp file is gone and the handle is dropped
Remove(ws, w) == [x \in DOMAIN ws \ {w} |-> ws[x]]

\* WriteTableFile returns nil, having read the whole body: the deferred Remove, then
\* fileIdToNumChunks[id] = ttf.numChunks
ConsUploadReturns ==
    /\ cpc = "upload"
    /\ bodyCalls > 0
    /\ attemptOk
    /\ sinkFiles' = sinkFiles \cup {FileId}
    /\ fileIdToNumChunks' =
           [id \in DOMAIN fileIdToNumChunks \cup {FileId} |->
               IF id = FileId THEN Len(FileId) ELSE fileIdToNumChunks[id]]
    /\ writers' = Remove(writers, tbl)
    /\ cpc' = "recv"
    /\ removeCalls' = Add64(removeCalls, 1)
    /\ UNCHANGED <<inVars, unsentBytes, bodyLen, uploadsStarted, fileBuffered, fileFinished, lvlVars, emitVars, faults, topVars, sinkChunks, manifest, drvVars, chanVars,
                   cmpVars, wr, completedTables, ctClosed, sema, tbl, chunksLen,
                   localUploaded, bodyCalls, attemptOk, egVars, stats, histVars>>

\* err = p.uploadTempTableFile(ctx, ttf); if err != nil { return err }
ConsUploadErrorIgnored(err) == cpc' = "recv" /\ UNCHANGED egVars
ConsUploadError(err) == ConsReturn(err)

ConsUploadFailsNoRemove ==
    /\ cpc = "upload"
    /\ \/ /\ faults > 0
          /\ faults' = faults - 1
          /\ stageFailed' = TRUE
          /\ \E err \in {ErrWriteTableFile, ErrReader} :
                FirstFail(err) /\ ConsUploadError(err)
       \/ /\ bodyCalls > 0 /\ ~attemptOk
          /\ stageFailed' = TRUE /\ FirstFail(ErrWriteTableFile)
          /\ ConsUploadError(ErrWriteTableFile)
          /\ UNCHANGED faults
       \/ /\ ctxDone
          /\ ConsUploadError(ErrCanceled)
          /\ UNCHANGED <<faults, stageFailed, firstFail>>
    /\ wtfFailed' = TRUE
    /\ UNCHANGED <<inVars, unsentBytes, auxVars, writers, emitVars, topVars, envVars, drvVars, chanVars, cmpVars, wr,
                   completedTables, ctClosed, sema, tbl, chunksLen, fileIdToNumChunks,
                   localUploaded, bodyCalls, attemptOk, stats, requested, manifestCalls, ctorFaulted,
                   wtfAfterManifest>>

\* WriteTableFile returns an error (a fault of the sink or of Reader(), the sink giving
\* up after a failed attempt, or ctx's error): the deferred Remove, then the return
ConsUploadFails ==
    /\ cpc = "upload"
    /\ \/ /\ faults > 0
          /\ faults' = faults - 1
          /\ stageFailed' = TRUE
          /\ \E err \in {ErrWriteTableFile, ErrReader} :
                FirstFail(err) /\ ConsUploadError(err)
       \/ /\ bodyCalls > 0 /\ ~attemptOk
          /\ stageFailed' = TRUE /\ FirstFail(ErrWriteTableFile)
          /\ ConsUploadError(ErrWriteTableFile)
          /\ UNCHANGED faults
       \/ /\ ctxDone
          /\ ConsUploadError(ErrCanceled)
          /\ UNCHANGED <<faults, stageFailed, firstFail>>
    /\ wtfFailed' = TRUE
    /\ writers' = Remove(writers, tbl)
    /\ removeCalls' = Add64(removeCalls, 1)
    /\ UNCHANGED <<inVars, unsentBytes, bodyLen, uploadsStarted, fileBuffered, fileFinished, lvlVars, emitVars, topVars, envVars, drvVars, chanVars, cmpVars, wr,
                   completedTables, ctClosed, sema, tbl, chunksLen, fileIdToNumChunks,
                   localUploaded, bodyCalls, attemptOk, stats, requested, manifestCalls, ctorFaulted,
                   wtfAfterManifest>>

Range(s) == {s[k] : k \in DOMAIN s}

\* the chunks of the table files that a manifest naming the files of m makes visible
ChunksOf(m, files) == UNION {Range(id) : id \in DOMAIN m \cap files}

\* AddTableFilesToManifest(ctx, fileIdToNumChunks) succeeds
ConsManifest ==
    /\ cpc = "manifest"
    /\ manifestCalls' = Min(manifestCalls + 1, 2)
    /\ manifest' = <<fileIdToNumChunks>>
    /\ sinkChunks' = sinkChunks \cup ChunksOf(fileIdToNumChunks, sinkFiles)
    /\ ConsReturn(Nil)
    /\ UNCHANGED <<inVars, auxVars, emitVars, faults, topVars, sinkFiles, drvVars, chanVars, cmpVars, wrVars,
                   tbl, chunksLen, fileIdToNumChunks, localUploaded, bodyCalls, attemptOk, stats,
                   requested, stageFailed, firstFail, ctorFaulted, wtfFailed, wtfAfterManifest>>

\* AddTableFilesToManifest fails: a fault of the sink, or ctx's error
ConsManifestFails ==
    /\ cpc = "manifest"
    /\ manifestCalls' = Min(manifestCalls + 1, 2)
    /\ \E err \in {ErrManifest, ErrCanceled} :
         /\ IF err = ErrCanceled
            THEN ctxDone /\ UNCHANGED <<faults, firstFail>>
            ELSE faults > 0 /\ faults' = faults - 1 /\ FirstFail(err)
         /\ ConsReturn(err)
    /\ UNCHANGED <<inVars, auxVars, emitVars, topVars, envVars, drvVars, chanVars, cmpVars, wrVars, tbl,
                   chunksLen, fileIdToNumChunks, localUploaded, bodyCalls, attemptOk, stats,
                   requested, stageFailed, ctorFaulted, wtfFailed, wtfAfterManifest>>

\* ------------------------------------------------------------ the caller
\* eg.Wait() returns the first error of the two goroutines; with a statistics channel
\* the deferred cancel of emitStats runs: close(done), then wg.Wait()
PullReturns ==
    /\ phase = "pulling"
    /\ dpc = "done" /\ cpc = "done"
    /\ pullRet' = egErr
    /\ IF scn.statsCh
       THEN phase' = "stopping" /\ emitDone' = TRUE
       ELSE phase' = "returned" /\ UNCHANGED emitDone
    /\ UNCHANGED <<inVars, auxVars, spc, epc, pending, ticks, lastStats, faults, puller, ctor2,
                   envVars, drvVars, chanVars, cmpVars, wrVars, consVars, egVars, stats,
                   histVars>>

\* wg.Wait() of emitStats' cancel returns: Pull returns
PullStatsStopped ==
    /\ phase = "stopping"
    /\ spc = "done" /\ epc = "done"
    /\ phase' = "returned"
    /\ UNCHANGED <<inVars, auxVars, emitVars, faults, puller, pullRet, ctor2, envVars, drvVars,
                   chanVars, cmpVars, wrVars, consVars, egVars, stats, histVars>>

\* ------------------------------------------------------------ emitStats
\* stats.read(): the snapshot of the counters
StatsRead == stats

\* the rate goroutine: case <-done: return
SamplerExits ==
    /\ spc = "run"
    /\ emitDone
    /\ spc' = "done"
    /\ UNCHANGED <<inVars, auxVars, epc, emitDone, pending, ticks, lastStats, faults, topVars,
                   envVars, drvVars, chanVars, cmpVars, wrVars, consVars, egVars, stats,
                   histVars>>

\* the snapshot goroutine: case <-ticker.C: the snapshot is read, ch <- begins
EmitTick ==
    /\ epc = "wait"
    /\ ticks < MaxTicks
    /\ ticks' = ticks + 1
    /\ pending' = StatsRead
    /\ epc' = "send"
    /\ UNCHANGED <<inVars, auxVars, spc, emitDone, lastStats, faults, topVars, envVars, drvVars,
                   chanVars, cmpVars, wrVars, consVars, egVars, stats, histVars>>

EmitDoneNoSnapshot ==
    /\ epc = "wait"
    /\ emitDone
    /\ epc' = "done"
    /\ UNCHANGED <<inVars, auxVars, spc, emitDone, pending, ticks, lastStats, faults, topVars,
                   envVars, drvVars, chanVars, cmpVars, wrVars, consVars, egVars, stats,
                   histVars>>

\* the snapshot goroutine: case <-done: the final snapshot is read, ch <- begins
EmitDone ==
    /\ epc = "wait"
    /\ emitDone
    /\ pending' = StatsRead
    /\ epc' = "final"
    /\ UNCHANGED <<inVars, auxVars, spc, emitDone, ticks, lastStats, faults, topVars, envVars,
                   drvVars, chanVars, cmpVars, wrVars, consVars, egVars, stats, histVars>>

\* the reader of the statistics channel receives: the blocked send completes; after
\* the final snapshot the goroutine returns
EmitSend ==
    /\ epc \in {"send", "final"}
    /\ lastStats' = pending
    /\ epc' = (IF epc = "final" THEN "done" ELSE "wait")
    /\ UNCHANGED <<inVars, auxVars, spc, emitDone, pending, ticks, faults, topVars, envVars,
                   drvVars, chanVars, cmpVars, wrVars, consVars, egVars, stats, histVars>>

\* the caller cancels the context it gave to Pull
CallerCancels ==
    /\ phase = "pulling"
    /\ ~ctxDone
    /\ faults > 0
    /\ faults' = faults - 1
    /\ ctxDone' = TRUE
    /\ FirstFail("cancel")
    /\ UNCHANGED <<inVars, auxVars, emitVars, topVars, envVars, drvVars, chanVars, cmpVars, wrVars, consVars,
                   egErr, stats, requested, manifestCalls, stageFailed, ctorFaulted,
                   wtfFailed, wtfAfterManifest>>

\* NewPuller is called again with the same stores and roots after Pull has returned
SecondNewPuller ==
    /\ phase = "returned"
    /\ \E f \in BOOLEAN :
         IF f
         THEN /\ faults > 0
              /\ faults' = faults - 1
              /\ ctor2' \in CtorFaults(scn, sinkChunks)
              /\ ctorFaulted' = TRUE
         ELSE /\ ctor2' = StartupChecks(scn, sinkChunks)
              /\ UNCHANGED <<faults, ctorFaulted>>
    /\ phase' = "second"
    /\ IF ctor2' = "ok" /\ FreeIds # {}
       THEN writers' = (NewId :> EmptyWriter) @@ writers
       ELSE UNCHANGED writers
    /\ UNCHANGED <<inVars, auxVars, emitVars, puller, pullRet, envVars, drvVars, chanVars, cmpVars, wr,
                   completedTables, ctClosed, sema, consVars, egVars, stats, requested,
                   manifestCalls, stageFailed, firstFail, wtfFailed, wtfAfterManifest>>

\* ------------------------------------------------------------ specifications
Next ==
    \/ NewPuller \/ PullStart
    \/ DriverAcquire \/ DriverLevel \/ DriverHasMany(TRUE) \/ DriverHasManyFails
    \/ DriverGetCmpReturns \/ DriverLevelEnd \/ DriverFlush \/ DriverClose
    \/ DriverCancelled
    \/ FetchEmit \/ FetchReturns \/ FetchFails \/ FetchSkips
    \/ WalkChunk \/ WalkFails \/ WalkReturns \/ WalkCancelled
    \/ PackChunk \/ PackAddFails \/ PackSend \/ PackAcquire \/ PackNewWriter
    \/ PackNewWriterFails \/ PackReturns \/ PackCancelled
    \/ ConsReceive \/ ConsClosed \/ ConsCancelled \/ ConsFinish \/ ConsFinishFails
    \/ ConsBody \/ ConsUploadReturns \/ ConsUploadFails \/ ConsManifest
    \/ ConsManifestFails
    \/ PullReturns \/ CallerCancels \/ SecondNewPuller
    \/ PullStatsStopped \/ SamplerExits \/ EmitTick \/ EmitDone \/ EmitSend

Spec == Init /\ [][Next]_vars

\* the same steps without the bound on totalSourceChunks: the counters wrap around
NextLive ==
    \/ NewPuller \/ PullStart
    \/ DriverAcquire \/ DriverLevel \/ DriverHasMany(FALSE) \/ DriverHasManyFails
    \/ DriverGetCmpReturns \/ DriverLevelEnd \/ DriverFlush \/ DriverClose
    \/ DriverCancelled
    \/ FetchEmit \/ FetchReturns \/ FetchFails \/ FetchSkips
    \/ WalkChunk \/ WalkFails \/ WalkReturns \/ WalkCancelled
    \/ PackChunk \/ PackAddFails \/ PackSend \/ PackAcquire \/ PackNewWriter
    \/ PackNewWriterFails \/ PackReturns \/ PackCancelled
    \/ ConsReceive \/ ConsClosed \/ ConsCancelled \/ ConsFinish \/ ConsFinishFails
    \/ ConsBody \/ ConsUploadReturns \/ ConsUploadFails \/ ConsManifest
    \/ ConsManifestFails
    \/ PullReturns \/ CallerCancels \/ SecondNewPuller
    \/ PullStatsStopped \/ SamplerExits \/ EmitTick \/ EmitDone \/ EmitSend

\* what each goroutine does when it is scheduled and no call of the environment fails
CallerStep == NewPuller \/ PullStart \/ PullReturns \/ PullStatsStopped
DriverStep ==
    \/ DriverAcquire \/ DriverLevel \/ DriverHasMany(FALSE) \/ DriverGetCmpReturns
    \/ DriverLevelEnd \/ DriverFlush \/ DriverClose \/ DriverCancelled
FetchStep == FetchEmit \/ FetchReturns
WalkStep == WalkChunk \/ WalkReturns \/ WalkCancelled
PackStep ==
    \/ PackChunk \/ PackSend \/ PackAcquire \/ PackNewWriter \/ PackReturns
    \/ PackCancelled
ConsStep ==
    \/ ConsReceive \/ ConsClosed \/ ConsCancelled \/ ConsFinish \/ ConsBody
    \/ ConsUploadReturns \/ ConsManifest
\* the goroutines of emitStats; whether a send on the statistics channel completes is
\* up to the reader of the channel
SamplerStep == SamplerExits
EmitStep == EmitDone
\* the caller's reader of the statistics channel
ReaderStep == EmitSend

\* the Go scheduler runs every goroutine that can take a step
FairSpec ==
    /\ InitLive
    /\ [][NextLive]_vars
    /\ WF_vars(CallerStep) /\ WF_vars(DriverStep) /\ WF_vars(FetchStep)
    /\ WF_vars(WalkStep) /\ WF_vars(PackStep) /\ WF_vars(ConsStep)
    /\ WF_vars(SamplerStep) /\ WF_vars(EmitStep)
    \* the caller keeps receiving from the statistics channel
    /\ WF_vars(ReaderStep)

\* the pulls of one chunk, with and without a statistics channel, with a fault or a
\* cancel by the caller; nothing is assumed of the reader of the statistics channel
CancelSpec ==
    /\ InitCancel
    /\ [][NextLive]_vars
    /\ WF_vars(CallerStep) /\ WF_vars(DriverStep) /\ WF_vars(FetchStep)
    /\ WF_vars(WalkStep) /\ WF_vars(PackStep) /\ WF_vars(ConsStep)
    /\ WF_vars(SamplerStep) /\ WF_vars(EmitStep)

\* ------------------------------------------------------------ properties
RECURSIVE ReachFrom(_, _)
\* the addresses reachable from the set s through the references of the graph g
ReachFrom(g, s) ==
    LET n == s \cup UNION {g[a] : a \in s \cap DOMAIN g}
    IN  IF n = s THEN s ELSE ReachFrom(g, n)

Returned == phase \in {"returned", "second"}
ManifestOk == Len(manifest) = 1

\* C1: after a Pull that returned nil, every address reachable from the roots through
\* the walker's references is in the sink, and the sink holds nothing but what it held
\* before and the chunks of the table files the manifest call registered
C1_TransitiveClosure ==
    (Returned /\ pullRet = Nil) =>
        /\ ReachFrom(scn.src, scn.hashes) \subseteq sinkChunks
        /\ ManifestOk
        /\ sinkChunks = scn.sink0 \cup ChunksOf(manifest[1], sinkFiles)
C1_Witness ==
    /\ pullRet = Nil /\ scn.src = GFive /\ scn.hashes = {"A"}
    /\ {"A", "B", "C", "D", "E"} \subseteq sinkChunks

\* the writers a table file of which is still to be uploaded
Unuploaded == {w \in DOMAIN writers : writers[w].chunks # <<>>}

\* C2: when AddTableFilesToManifest has been called, every writer handed off has been
\* uploaded and every WriteTableFile call has returned without error, none is in
\* progress and none starts afterwards
C2_AtomicPublish ==
    manifestCalls > 0 =>
        /\ cpc \in {"manifest", "done"}
        /\ ~wtfFailed /\ ~wtfAfterManifest
        /\ completedTables = <<>> /\ ctClosed /\ dpc = "done"
        /\ Unuploaded = {}
        /\ DOMAIN fileIdToNumChunks \subseteq sinkFiles
C2_Witness == manifestCalls = 1 /\ Cardinality(sinkFiles) >= 2

\* C3: the manifest call is made at most once; Pull returns nil exactly when it was made
\* and succeeded; once a stage has failed it is never made, and as long as it has not
\* succeeded the sink shows what it showed before the pull
C3_AllOrNothing ==
    /\ manifestCalls <= 1
    /\ ManifestOk => manifestCalls = 1 /\ egErr = Nil /\ dpc = "done" /\ cpc = "done"
    /\ Returned => (pullRet = Nil <=> ManifestOk)
    /\ stageFailed => manifestCalls = 0
    /\ ~ManifestOk => sinkChunks = scn.sink0
C3_Witness ==
    /\ phase = "returned" /\ stageFailed /\ pullRet \notin {Nil, "running"}
    /\ sinkFiles # {} /\ sinkChunks = scn.sink0

\* C4: no address the sink held when the pull began is requested from the source: a
\* batch given to GetManyCompressed holds only addresses sink.HasMany reported absent
C4_NoOverFetch ==
    /\ \A a \in Addrs : requested[a] > 0 => a \notin scn.sink0
    /\ dpc = "getcmp" => batch # {} /\ batch \cap sinkChunks = {}
C4_Witness ==
    /\ scn.src = GTree /\ scn.sink0 = {"C"} /\ pullRet = Nil
    /\ requested["A"] = 1 /\ requested["B"] = 1 /\ requested["C"] = 0

\* C5: during one Pull no address is requested from the source more than once
C5_FetchedOnce == \A a \in Addrs : requested[a] <= 1

\* C6: when no call of the source or the sink fails and the caller does not cancel, a
\* Pull that has started eventually returns
C6_PullReturns == (phase = "pulling" /\ faults = 0) ~> (phase = "returned")

\* the writers that exist and are not finalized: the one being filled, those queued in
\* completedTables and the one the consumer has received and not yet finished
Unfinalized ==
    {w \in ({wr} \cup Range(completedTables) \cup (IF cpc = "finish" THEN {tbl} ELSE {}))
           \cap DOMAIN writers : ~writers[w].finished}

\* C7: during a pull at most outstandingTableFiles writers exist that are not finalized
C7_BoundedWriters ==
    phase = "pulling" => Cardinality(Unfinalized) <= outstandingTableFiles

\* C8: when Pull has returned, the temp file of every writer made for it is removed
C8_Cleanup == phase = "returned" => DOMAIN writers = {}

\* C9: after a Pull that returned nil, a second NewPuller with the same stores and roots
\* whose store calls succeed returns ErrDBUpToDate
C9_Idempotence ==
    (phase = "second" /\ pullRet = Nil /\ ctor2 \notin CtorFaults(scn, sinkChunks)) =>
        ctor2 = ErrDBUpToDate
C9_Witness == phase = "second" /\ pullRet = Nil /\ ctor2 = ErrDBUpToDate

\* C10: when a root is absent from the source and srcCS.HasMany itself succeeds,
\* NewPuller returns the not-found error and no Puller, no writer has been made and
\* nothing has been requested or fetched from the source
C10_RootNotFound ==
    (SrcHasMany(scn, scn.hashes) # {} /\ puller \notin {"none", ErrSrcHasMany}) =>
        /\ puller = ErrNotFound
        /\ phase = "failed"
        /\ DOMAIN writers = {}
        /\ stats = ZeroStats
        /\ \A a \in Addrs : requested[a] = 0
C10_Witness == puller = ErrNotFound /\ scn.hashes = {"A", "B"} /\ scn.sink0 = {"B"}

\* the errors of NewPuller's own store calls (HasMany of either store, the new writer)
CtorCallErrs == {ErrSrcHasMany, ErrSinkHasMany, ErrNewWriter}

\* C11: when the source holds every root and the sink holds every root too (the root
\* list may be empty, the sink may hold the whole closure of the one root) and the two
\* HasMany calls succeed, NewPuller returns ErrDBUpToDate and no Puller: no writer is
\* made and no pull starts
C11_UpToDate ==
    (/\ SrcHasMany(scn, scn.hashes) = {}
     /\ SinkHasMany(scn.sink0, scn.hashes) = {}
     /\ puller \notin {"none"} \cup CtorCallErrs) =>
        /\ puller = ErrDBUpToDate
        /\ phase = "failed"
        /\ DOMAIN writers = {}
        /\ pullRet = "running"
C11_Witness ==
    /\ puller = ErrDBUpToDate /\ scn.src = GTree /\ scn.hashes = {"A"}
    /\ ReachFrom(scn.src, scn.hashes) \subseteq scn.sink0

\* C12: when the source holds every root, a root is absent from the sink, the HasMany
\* calls succeed and the versions of the two stores differ, NewPuller returns the
\* version error and no Puller
C12_VersionMismatch ==
    (/\ SrcHasMany(scn, scn.hashes) = {}
     /\ SinkHasMany(scn.sink0, scn.hashes) # {}
     /\ ~scn.sameVersion
     /\ puller \notin {"none"} \cup CtorCallErrs) =>
        /\ puller = ErrVersion
        /\ phase = "failed"
        /\ DOMAIN writers = {}
C12_Witness == puller = ErrVersion /\ ~scn.sameVersion /\ ~scn.compressed

\* C13: when the first three startup checks pass and the source store does not
\* implement the compressed-chunk interface, NewPuller returns
\* ErrIncompatibleSourceChunkStore and no Puller
C13_IncompatibleSource ==
    (/\ SrcHasMany(scn, scn.hashes) = {}
     /\ SinkHasMany(scn.sink0, scn.hashes) # {}
     /\ scn.sameVersion
     /\ ~scn.compressed
     /\ puller \notin {"none"} \cup CtorCallErrs) =>
        /\ puller = ErrIncompatibleSourceChunkStore
        /\ phase = "failed"
        /\ DOMAIN writers = {}
C13_Witness ==
    /\ puller = ErrIncompatibleSourceChunkStore /\ scn.sameVersion /\ ~scn.compressed
    /\ phase = "failed"

\* C14: every batch limitToNewChunks hands to the batch loop, and every batch given to
\* GetManyCompressed, holds at most the batch limit of addresses, whether the absent
\* set is below the limit, equal to it, above it or a multiple of it (the root sets of
\* the scenarios have 0 to 2 * maxBatchSize addresses)
C14_BoundedBatch ==
    /\ \A j \in DOMAIN absentBatches : Cardinality(absentBatches[j]) <= maxBatchSize
    /\ dpc = "getcmp" => Cardinality(batch) <= maxBatchSize
C14_Witness ==
    /\ Cardinality(scn.hashes) = 2 * maxBatchSize
    /\ dpc = "getcmp" /\ Cardinality(batch) = maxBatchSize /\ i = 1

\* the writers handed to the completed-files channel that still exist: those queued, in
\* their order, then the one the consumer has received
HandedOff ==
    completedTables \o (IF cpc \in {"finish", "upload"} /\ tbl \in DOMAIN writers
                         THEN <<tbl>> ELSE <<>>)

\* C15: a writer handed to the completed-files channel holds at least chunksPerTF
\* chunks, from the hand-off until it is finalized and uploaded, unless it is the writer
\* the driver sent after the last level: that one is the last of the queue, nothing is
\* sent after it, and it is not empty
C15_Rotation ==
    \A j \in DOMAIN HandedOff :
        \/ ChunkCount(HandedOff[j]) >= scn.chunksPerTF
        \/ /\ dpc \in {"close", "done"}
           /\ wr = HandedOff[j]
           /\ ChunkCount(HandedOff[j]) > 0
           /\ \A m \in DOMAIN HandedOff : m # j => ChunkCount(HandedOff[m]) >= scn.chunksPerTF
C15_Witness ==
    /\ Len(completedTables) = 2 /\ scn.chunksPerTF = 2
    /\ ChunkCount(completedTables[1]) = 2 /\ ChunkCount(completedTables[2]) = 1

\* C16: after a Pull that returned nil and fetched n chunks with chunksPerTF = k, the
\* files uploaded are the files registered, there are ceil(n / k) of them, none is
\* empty, each holds k chunks but for at most one, which holds the remainder of n by k
C16_FileCount ==
    (Returned /\ pullRet = Nil) =>
        LET n == stats.fetchedSourceChunks
            k == scn.chunksPerTF
            m == manifest[1]
        IN  /\ n >= 1
            /\ sinkFiles = DOMAIN m
            /\ Cardinality(DOMAIN m) = (n + k - 1) \div k
            /\ \A id \in DOMAIN m : m[id] = Len(id) /\ m[id] >= 1 /\ m[id] <= k
            /\ Cardinality({id \in DOMAIN m : m[id] # k}) <= 1
            /\ \A id \in DOMAIN m : m[id] # k => m[id] = n % k

\* GetManyCompressed has returned nil for the current batch (found is closed) having
\* emitted fewer chunks than the addresses requested
ShortFetch == foundClosed /\ stats.fetchedSourceChunks # stats.totalSourceChunks

\* C17: when GetManyCompressed returned nil for a batch without having emitted every
\* chunk of it, the Pull that returns has failed and has made no manifest call; when
\* the short fetch is the only fault of the run, it returns "failed to get all chunks."
C17_IncompleteFetch ==
    (Returned /\ ShortFetch) =>
        /\ pullRet # Nil
        /\ manifestCalls = 0
        /\ ~ManifestOk
        /\ faults = MaxFaults - 1 => pullRet = ErrIncomplete
C17_Witness ==
    /\ phase = "returned" /\ ShortFetch /\ pullRet = ErrIncomplete
    /\ sinkFiles # {} /\ seen = Cardinality(batch) - 1

RECURSIVE NeededFrom(_, _, _)
\* the addresses of s absent from the sink, and those reached from them through the
\* references of g and absent from the sink
NeededFrom(g, sink, s) ==
    LET n == (s \cup UNION {g[a] : a \in s \cap DOMAIN g}) \ sink
    IN  IF n = s THEN s ELSE NeededFrom(g, sink, n)

Needed == NeededFrom(scn.src, scn.sink0, scn.hashes \ scn.sink0)

\* C18: after a Pull that returned nil, fetchedSourceChunks is the number of distinct
\* addresses that are roots absent from the sink or reached from them and absent from
\* the sink (3 for the tree A -> {B, C} and an empty sink)
C18_FetchedCount ==
    (Returned /\ pullRet = Nil) =>
        /\ stats.fetchedSourceChunks = Cardinality(Needed)
        /\ stats.totalSourceChunks = Cardinality(Needed)

\* every goroutine of the pull has returned
StagesDone ==
    /\ dpc = "done" /\ cpc = "done"
    /\ {fpc, wpc, ppc} \subseteq {"idle", "done"}

\* C19: when Pull has returned, every goroutine of the pipeline has returned; when one
\* stage failed and nothing else went wrong in the run (no second fault, no cancel by
\* the caller), Pull returns that stage's error, not the cancellation error the other
\* stages return
C19_FirstError ==
    Returned =>
        /\ StagesDone
        /\ (firstFail \notin {"none", "cancel"} /\ faults = MaxFaults - 1) =>
               pullRet = firstFail /\ pullRet # ErrCanceled /\ ctxDone
C19_Witness ==
    /\ phase = "returned" /\ firstFail = ErrGetMany /\ pullRet = ErrGetMany
    /\ scn.src = GTree /\ stats.totalSourceChunks = 3 /\ iErr = ErrGetMany

\* C20: once the cancellation signal of a running pull has fired, Pull eventually
\* returns: every goroutine leaves its receive, send or acquire, the send on the
\* statistics channel included
C20_CancelReturns == (ctxDone /\ phase \in {"pulling", "stopping"}) ~> (phase = "returned")

\* ------------------------------------------------------------ uploads
\* C21: every call of the body callback of WriteTableFile, the first and each retry,
\* returns a new reader on the finalized table file together with one content length,
\* the length of the file after Finish (the chunk records, the index and the footer);
\* the bytes an attempt has read are counted from the start of the file
C21_BodyCallback ==
    (cpc = "upload" /\ bodyCalls > 0) =>
        /\ tbl \in DOMAIN writers /\ writers[tbl].finished
        /\ bodyLen = writers[tbl].len
        /\ bodyLen = chunksLen + IndexLen(ChunkCount(tbl))
        /\ localUploaded <= bodyLen
        /\ attemptOk => localUploaded = bodyLen

\* a retry of the callback on a file of two chunks, read to its end
C21_Witness ==
    /\ cpc = "upload" /\ bodyCalls = 2 /\ attemptOk
    /\ ChunkCount(tbl) = 2
    /\ bodyLen = 2 * CmpLen + IndexLen(2)
    /\ localUploaded = bodyLen

\* C22: a table file adds to bufferedSendBytes the length of every chunk appended to it,
\* the length of its index and footer exactly once, and on every retry of the body
\* callback the bytes read through the reader of the attempt before; so when its upload
\* succeeds it has added to bufferedSendBytes what it has added to finishedSendBytes,
\* however many attempts failed and however many bytes, zero included, each had read
C22_BufferedEqualsFinished ==
    (cpc = "upload" /\ attemptOk) => fileBuffered = fileFinished

\* ------------------------------------------------------------ statistics
\* C23: with a statistics channel, the final snapshot is read and sent after every stage
\* of the pipeline has finished and before Pull returns; it is the last snapshot sent,
\* its counters are the final values of the counters, and once Pull has returned
\* nothing is sent on the channel
C23_FinalSnapshot ==
    /\ epc = "final" => (phase = "stopping" /\ StagesDone /\ pending = stats)
    /\ (scn.statsCh /\ Returned) =>
          /\ epc = "done" /\ spc = "done"
          /\ lastStats = stats

\* a pull that fetched and uploaded one chunk and sent a snapshot on a tick before the
\* final one
C23_Witness ==
    /\ scn.statsCh /\ phase = "returned" /\ pullRet = Nil
    /\ ticks = 1
    /\ lastStats.fetchedSourceChunks = 1
    /\ lastStats.finishedSendBytes = CmpLen + IndexLen(1)
    /\ lastStats = stats

\* ------------------------------------------------------------ the semaphore
\* the permits of tablefileSema change by one: up as the driver or the pack stage
\* acquires, down as the consumer receives a writer
PermitStep ==
    /\ sema' > sema =>
          /\ sema' = sema + 1
          /\ \/ dpc = "acquire" /\ dpc' = "loop"
             \/ ppc = "acquire" /\ ppc' = "newwr"
    /\ sema' < sema =>
          /\ sema' = sema - 1
          /\ cpc = "recv" /\ cpc' = "finish"
          /\ completedTables = <<tbl'>> \o completedTables'
    /\ Len(completedTables') < Len(completedTables) => sema' = sema - 1

\* C24: a rotation sends the full writer, then acquires one permit, then makes the new
\* writer; the consumer releases exactly one permit for each writer it receives; the
\* permits held stay between 0 and outstandingTableFiles, every writer in the channel
\* holding one, so that no Release lacks an earlier Acquire
C24_Permits ==
    /\ [](/\ sema \in 0..outstandingTableFiles
          /\ Len(completedTables) <= sema
          /\ ppc = "acquire" => (wr = NoWriter /\ sema >= Len(completedTables))
          /\ ppc = "newwr" => (wr = NoWriter /\ sema > Len(completedTables)))
    /\ [][PermitStep]_vars
    /\ [][(wr' # wr /\ wr' # NoWriter /\ phase = "pulling") =>
             (ppc = "newwr" /\ sema' = sema /\ sema > Len(completedTables))]_vars

\* the pack stage holds both permits: one for a writer in the channel, one for the
\* writer it is about to make
C24_Witness ==
    /\ ppc = "newwr" /\ sema = outstandingTableFiles
    /\ Len(completedTables) = 1 /\ cpc = "upload"

\* ------------------------------------------------------------ backpressure
\* the pack stage cannot go on until the consumer has received a writer
PackWaits ==
    \/ ppc = "send" /\ Len(completedTables) >= CompletedCap
    \/ ppc = "acquire" /\ sema >= outstandingTableFiles

\* C25: when uploads lag, what holds the pack stage back is the completed-files channel:
\* it fills to its capacity of CompletedCap writers and the send of the pack stage
\* blocks until the consumer receives
C25_ChannelBackpressure ==
    PackWaits => (ppc = "send" /\ Len(completedTables) = CompletedCap)

\* C25 as amended: the channel never holds more than outstandingTableFiles writers, so
\* no send on it blocks; when uploads lag the pack stage waits in the Acquire that
\* follows its send, all permits taken, until the consumer receives a writer
C25_SemaphoreBackpressure ==
    /\ Len(completedTables) <= outstandingTableFiles
    /\ Len(completedTables) < CompletedCap
    /\ (ppc = "send" \/ dpc = "flush") => Len(completedTables) < outstandingTableFiles
    /\ PackWaits => (ppc = "acquire" /\ sema = outstandingTableFiles)

\* two writers wait in the channel, the consumer has received neither, and the pack
\* stage waits for a permit
C25_Witness ==
    /\ PackWaits /\ ppc = "acquire"
    /\ Len(completedTables) = outstandingTableFiles
    /\ cpc = "recv" /\ ~ctxDone

\* ------------------------------------------------------------ writer ownership
\* the pack goroutine of a getCmp call is running
PackRuns == dpc = "getcmp" /\ ppc \in {"recv", "send"}

\* a step changes a writer only by an append of the pack stage to its current writer,
\* which it has not handed off, or by the Finish of the consumer on the writer it has
\* received and not yet finalized
WriterStep ==
    \A w \in DOMAIN writers \cap DOMAIN writers' :
        writers'[w] # writers[w] =>
            \/ /\ PackRuns /\ ppc = "recv" /\ w = wr
               /\ w \notin Range(HandedOff)
               /\ ~writers[w].finished
               /\ \E a \in Addrs : writers'[w] = AddCmpChunk(writers[w], a)
            \/ /\ cpc = "finish" /\ cpc' = "upload" /\ w = tbl
               /\ ~writers[w].finished
               /\ writers'[w] = Finish(writers[w])

RemoveStep ==
    /\ removeCalls' # removeCalls =>
          /\ removeCalls' = Add64(removeCalls, 1)
          /\ cpc = "upload" /\ cpc' # "upload"
          /\ tbl \in DOMAIN writers /\ tbl \notin DOMAIN writers'
          /\ bodyCalls' = bodyCalls
    /\ bodyCalls' > bodyCalls =>
          (tbl \in DOMAIN writers /\ tbl \in DOMAIN writers' /\ cpc' = "upload")
    /\ \A w \in DOMAIN writers \ DOMAIN writers' :
          w = tbl /\ removeCalls' = Add64(removeCalls, 1)

\* C27: the temp file of every table file whose upload was started is removed exactly
\* once, and only when WriteTableFile has returned, with nil or with an error: never
\* while the sink can still call the body callback
C27_RemoveOnce ==
    /\ [](/\ uploadsStarted = Add64(removeCalls, IF cpc = "upload" THEN 1 ELSE 0)
          /\ cpc = "upload" => tbl \in DOMAIN writers)
    /\ [][RemoveStep]_vars

\* two uploads were started, the first returned nil, the second an error after a failed
\* attempt, and both temp files were removed
C27_Witness ==
    /\ Returned /\ wtfFailed
    /\ uploadsStarted = 2 /\ removeCalls = 2
    /\ Cardinality(sinkFiles) = 1 /\ bodyCalls = 1

\* ------------------------------------------------------------ levels
\* the addresses requested from the source so far
Fetched == {a \in Addrs : requested[a] > 0}

\* the driver is between two levels: before the first, or after the batch loop of one
LevelBoundary == phase = "pulling" /\ dpc = "loop"

\* a step changes p.downloaded only by adding to it, and only in the driver
DownloadedStep ==
    downloaded' # downloaded =>
        /\ downloaded \subseteq downloaded'
        /\ dpc \in {"loop", "getcmp"} /\ dpc' = "batch"

\* C28: p.downloaded never shrinks, only the driver changes it, and at every level
\* boundary it holds exactly the addresses fetched so far
C28_Downloaded ==
    /\ [](LevelBoundary => downloaded = Fetched)
    /\ [][DownloadedStep]_vars

\* the stages of getCmp are not running and its channels are empty
GetCmpIdle == {fpc, wpc, ppc} \subseteq {"idle", "done"}

\* the batch loop of the level is over
LevelEnd == phase = "pulling" /\ dpc = "batch" /\ i >= Len(absentBatches)

\* C29: the levels are synchronized: what is requested from the source is a batch of
\* the absent set the level started with, one batch at a time, so no address found by
\* walking a chunk of the level is requested before every batch of the level has been
\* fetched, walked and packed; and the absent set of the next level is the complete set
\* of addresses the walker found in the level
C29_LevelSync ==
    /\ dpc = "getcmp" => (batch \subseteq absent /\ batch \subseteq absentBatches[i + 1])
    /\ dpc \in {"loop", "batch", "flush"} => GetCmpIdle
    /\ (phase = "pulling" /\ dpc \in {"batch", "getcmp"}) => nextAbsent \subseteq levelCands
    /\ LevelEnd => (nextAbsent = levelCands /\ (egErr = Nil => found = <<>> /\ processed = <<>>))
    /\ LevelBoundary =>
          \/ absent = levelCands
          \/ Fetched = {} /\ levelCands = {} /\ absent = scn.hashes

\* the end of a level of two batches whose chunks reference two addresses
C29_Witness ==
    /\ LevelEnd /\ Len(absentBatches) = 2 /\ egErr = Nil
    /\ Fetched = {"A", "B", "C"}
    /\ nextAbsent = {"D", "E"} /\ levelCands = nextAbsent

\* the batches of the level the batch loop has still to take
BatchesLeft == UNION {absentBatches[j] : j \in (i + 1)..Len(absentBatches)}

\* C30: no address the walker found is lost: between two batches it is in the candidate
\* set of the level or in a batch still to come, at a level boundary it is in the
\* absent set of the next level, unless it was meanwhile given to sink.HasMany (and
\* then fetched or reported present) or found in p.downloaded; this also when the
\* candidate set reaches the batch limit within a level; so a Pull that returns nil
\* has left none of them out
C30_NoCandidateLost ==
    /\ (phase = "pulling" /\ dpc = "batch") => unresolved \subseteq nextAbsent \cup BatchesLeft
    /\ LevelBoundary => unresolved \subseteq absent
    /\ (Returned /\ pullRet = Nil) => unresolved = {}

\* ------------------------------------------------------------ the leaf flag
\* the batches a pull of the inputs s requests, level by level, when no call fails and
\* no level reaches the batch limit: a level is what the level before references and
\* the sink lacks; at most fuel levels
RECURSIVE RefLevels(_, _, _)
RefLevels(s, abs, fuel) ==
    LET b == abs \ s.sink0
    IN  IF b = {} \/ fuel = 0
        THEN <<>>
        ELSE <<b>> \o RefLevels(s, UNION {s.src[a] : a \in b}, fuel - 1)

RECURSIVE SumCard(_)
SumCard(q) == IF q = <<>> THEN 0 ELSE Cardinality(Head(q)) + SumCard(Tail(q))

\* the requests per address, counted as the history counts them, and the chunk counts
\* of the table files, that follow from these levels: they do not mention leaf flags
RefRequested(s) ==
    LET lv == RefLevels(s, s.hashes, MaxSourceChunks)
    IN  [a \in Addrs |-> Min(Cardinality({j \in DOMAIN lv : a \in lv[j]}), 2)]
RefFileSizes(s) ==
    LET n == SumCard(RefLevels(s, s.hashes, MaxSourceChunks))
    IN  [c \in 1..s.chunksPerTF |->
            IF c = s.chunksPerTF THEN n \div c ELSE IF n % s.chunksPerTF = c THEN 1 ELSE 0]
\* how many of the table files registered hold c chunks
FileSizes ==
    [c \in 1..scn.chunksPerTF |->
        Cardinality({id \in DOMAIN fileIdToNumChunks : fileIdToNumChunks[id] = c})]

\* the inputs that are pulled with each kind of leaf flags
LeafFamily ==
    /\ scn.src \in {GTree, GCross} /\ scn.sink0 = {} /\ scn.hashes = {"A"}
    /\ scn.chunksPerTF = 2 /\ scn.sameVersion /\ scn.compressed /\ ~scn.statsCh

\* the pack stage adds every address of a record's references to the candidates of the
\* level, at once or after the rotation of the writer, whatever its flag
LeafStep ==
    /\ (ppc = "recv" /\ Len(processed') < Len(processed) /\ ppc' # "done") =>
          IF ppc' = "send"
          THEN nextAbsent' = nextAbsent /\ DOMAIN curRefs' = DOMAIN Head(processed).refs
          ELSE nextAbsent' = nextAbsent \cup DOMAIN Head(processed).refs
    /\ (ppc = "newwr" /\ ppc' = "recv") => nextAbsent' = nextAbsent \cup DOMAIN curRefs

\* C31: the leaf flags of the walker do not influence the pull: pulls of the same source,
\* sink and roots whose walkers pass the same addresses with different flags request
\* the same addresses as often, register table files of the same chunk counts and
\* return the same result, namely what follows from the inputs without the flags
C31_LeafFlagIgnored ==
    /\ []((Returned /\ LeafFamily /\ firstFail = "none") =>
            /\ pullRet = Nil
            /\ requested = RefRequested(scn)
            /\ FileSizes = RefFileSizes(scn)
            /\ ManifestOk /\ DOMAIN manifest[1] = sinkFiles)
    /\ [][LeafStep]_vars

\* a pull whose walker flags no address as a leaf, on the source where C is referenced
\* from two levels
C31_Witness ==
    /\ Returned /\ pullRet = Nil /\ scn.leafFlags = "never" /\ scn.src = GCross
    /\ requested = RefRequested(scn) /\ requested["C"] = 2 /\ requested["B"] = 1
    /\ FileSizes = RefFileSizes(scn) /\ FileSizes[2] = 2

\* ------------------------------------------------------------ the close of the channel
\* a step closes the completed-files channel only as the driver returns nil after the
\* flush; the flush follows the last level and sends the current writer if it holds a
\* chunk; nothing is sent on the closed channel; an error return of the driver leaves
\* it open
CloseStep ==
    /\ ctClosed' # ctClosed =>
          /\ ~ctClosed /\ ctClosed'
          /\ dpc = "close" /\ dpc' = "done" /\ egErr' = egErr
          /\ numAbsent = 0 /\ nextAbsent = {} /\ GetCmpIdle
    /\ (dpc # "close" /\ dpc' = "close") =>
          /\ dpc = "flush" /\ numAbsent = 0 /\ GetCmpIdle
          /\ IF wr # NoWriter /\ ChunkCount(wr) > 0
             THEN completedTables' = Append(completedTables, wr)
             ELSE completedTables' = completedTables
    /\ ctClosed => Len(completedTables') <= Len(completedTables)
    /\ (dpc \notin {"close", "done"} /\ dpc' = "done") => ~ctClosed'

\* C32: the completed-files channel is closed exactly once, by the driver only, after
\* the last level has drained and after the current writer was sent on it if it holds
\* a chunk; nothing is sent on it once it is closed, and it stays open when the driver
\* returns an error
C32_CloseOnce ==
    /\ [](ctClosed => (dpc = "done" /\ numAbsent = 0 /\ GetCmpIdle))
    /\ [][CloseStep]_vars

\* the channel is closed with the last writer, of one chunk, still in it
C32_Witness ==
    /\ ctClosed /\ dpc = "done" /\ egErr = Nil
    /\ Len(completedTables) = 1 /\ completedTables[1] = wr
    /\ ChunkCount(wr) = 1 /\ scn.chunksPerTF = 2

\* ------------------------------------------------------------ conservation of chunks
RECURSIVE SumOf(_, _)
\* the sum of m over the keys ks
SumOf(m, ks) ==
    IF ks = {} THEN 0
    ELSE LET k == CHOOSE x \in ks : TRUE IN m[k] + SumOf(m, ks \ {k})

\* the number of places of the uploaded table files that hold the chunk a
Copies(a) ==
    SumOf([id \in sinkFiles |-> Cardinality({k \in DOMAIN id : id[k] = a})], sinkFiles)

\* C33: when Pull returns nil, every chunk appended by the pack stage is in exactly one
\* uploaded table file, the map given to AddTableFilesToManifest has one entry for
\* each uploaded file with that file's chunk count, and the registered chunk counts
\* add up to fetchedSourceChunks
C33_Conservation ==
    (Returned /\ pullRet = Nil) =>
        LET m == manifest[1]
        IN  /\ \A a \in Fetched : Copies(a) = 1
            /\ DOMAIN m = sinkFiles
            /\ \A id \in DOMAIN m : m[id] = Len(id)
            /\ SumOf(m, DOMAIN m) = stats.fetchedSourceChunks

\* the same conservation, over the runs that asked the source for no chunk twice
ConservationOfSingleFetches == (\A a \in Addrs : requested[a] <= 1) => C33_Conservation

\* ------------------------------------------------------------ the two chunk counters
\* a step changes totalSourceChunks only by adding the size of the batch whose fetch
\* it starts, and fetchedSourceChunks only by adding one as the source emits a chunk
CounterStep ==
    /\ stats'.totalSourceChunks # stats.totalSourceChunks =>
          /\ dpc = "batch" /\ dpc' = "getcmp" /\ fpc' = "run" /\ toEmit' = batch'
          /\ stats'.totalSourceChunks = stats.totalSourceChunks + Cardinality(batch')
          /\ stats'.fetchedSourceChunks = stats.fetchedSourceChunks
    /\ stats'.fetchedSourceChunks # stats.fetchedSourceChunks =>
          /\ fpc = "run" /\ Cardinality(toEmit') = Cardinality(toEmit) - 1
          /\ stats'.fetchedSourceChunks = stats.fetchedSourceChunks + 1
          /\ stats'.totalSourceChunks = stats.totalSourceChunks

\* C34: fetchedSourceChunks <= totalSourceChunks in every state of a pull, neither
\* counter decreases (the total grows by the batch size as the batch's fetch starts,
\* the fetched count by one per chunk the source emits), and the two are equal when
\* Pull has returned nil
C34_Counters ==
    /\ [](/\ stats.fetchedSourceChunks <= stats.totalSourceChunks
          /\ (Returned /\ pullRet = Nil) =>
                 stats.fetchedSourceChunks = stats.totalSourceChunks)
    /\ [][CounterStep]_vars

\* the second batch of a level is being fetched: its two addresses are counted in the
\* total, the three of the first batch are fetched
C34_Witness ==
    /\ fpc = "run" /\ Cardinality(batch) = 2 /\ toEmit = batch
    /\ stats.totalSourceChunks = 5 /\ stats.fetchedSourceChunks = 3

\* ------------------------------------------------------------ the two byte counters
\* C35: in every state of a pull, upload retries included, finishedSendBytes is at
\* most bufferedSendBytes: what was added to the second less what was added to the
\* first is never negative (the counters themselves are kept modulo CounterMod)
C35_FinishedAtMostBuffered ==
    /\ unsentBytes >= 0
    /\ stats.bufferedSendBytes = Add64(stats.finishedSendBytes, unsentBytes)

\* a retry of an upload has read the whole file after a first attempt read a part
C35_Witness ==
    /\ cpc = "upload" /\ bodyCalls = 2 /\ attemptOk
    /\ fileFinished > FileSize /\ unsentBytes = 0

\* ------------------------------------------------------------ the order of the checks
\* which of the four startup checks the inputs of the run fail, and the error of each
ChecksFailed ==
    {k \in 1..4 : <<SrcHasMany(scn, scn.hashes) # {},
                    SinkHasMany(scn.sink0, scn.hashes) = {},
                    ~scn.sameVersion,
                    ~scn.compressed>>[k]}
CheckErrs == <<ErrNotFound, ErrDBUpToDate, ErrVersion, ErrIncompatibleSourceChunkStore>>

\* C36: a NewPuller whose store calls succeed returns the error of the first of the
\* checks (1) source has every root, (2) sink lacks a root, (3) versions equal,
\* (4) source is a compressed-chunk store that fails, and a Puller when none fails; with
\* every root in both stores it returns ErrDBUpToDate whatever the versions and the
\* kind of the source
C36_CheckOrder ==
    (puller \notin {"none"} \cup CtorCallErrs) =>
        /\ IF ChecksFailed = {}
           THEN puller = "ok"
           ELSE puller = CheckErrs[CHOOSE k \in ChecksFailed :
                                      \A j \in ChecksFailed : k <= j]
        /\ (scn.hashes \subseteq DOMAIN scn.src \cap scn.sink0) => puller = ErrDBUpToDate

\* up to date, with versions that differ and a source that is not a compressed store
C36_Witness ==
    /\ puller = ErrDBUpToDate /\ phase = "failed"
    /\ ChecksFailed = {2, 3, 4} /\ scn.hashes # {}

\* ------------------------------------------------------------ a failed NewPuller
\* a NewPuller call that returns the error of a startup check changes nothing but its
\* result: no writer, no file, no request to the source, nothing in the sink
FailedCtorStep ==
    \/ /\ puller' = puller /\ ctor2' = ctor2
    \/ puller' \in {"ok", ErrNewWriter} \/ ctor2' \in {"ok", ErrNewWriter}
    \/ /\ UNCHANGED <<wr, writers, envVars, requested, stats, completedTables, sema>>
       /\ UNCHANGED <<drvVars, chanVars, cmpVars, consVars, egVars, pullRet>>

\* C37: a NewPuller that fails a startup check returns no Puller and has no effect: no
\* table-file writer and so no temp file, nothing asked of the source, nothing written
\* to the sink; a writer exists only once all four checks have passed
C37_FailedCtorNoEffect ==
    /\ [](/\ (phase = "failed" /\ puller # ErrNewWriter) =>
                /\ puller \notin {"ok", "none"} /\ pullRet = "running"
                /\ wr = NoWriter /\ DOMAIN writers = {}
                /\ \A a \in Addrs : requested[a] = 0
                /\ stats = ZeroStats
                /\ sinkChunks = scn.sink0 /\ sinkFiles = {} /\ manifest = <<>>
          /\ (DOMAIN writers # {} \/ wr # NoWriter) =>
                (ChecksFailed = {} /\ puller = "ok"))
    /\ [][FailedCtorStep]_vars

\* the last check has failed after the first three passed
C37_Witness ==
    /\ phase = "failed" /\ puller = ErrIncompatibleSourceChunkStore
    /\ ChecksFailed = {4} /\ DOMAIN writers = {} /\ sinkChunks = {}

\* ------------------------------------------------------------ dolt_ignore patterns
\* patterns and table names are sequences of characters; the rows of dolt_ignore, in
\* the order of their keys, and the table names the calls are checked with
IgnoreKeys == << <<"*">>, <<"?", "b">>, <<"a", "*">>, <<"a", "?">>, <<"a", "b">> >>
TableNames == {<<"a", "b">>, <<"a", "a">>, <<"b", "b">>, <<"b", "a">>}

\* the rows of one dolt_ignore table: f gives each key its value, or no row
IgnoreRows(f) ==
    LET keep == SelectSeq([k \in DOMAIN IgnoreKeys |-> k], LAMBDA k : f[k] # "none")
    IN  [j \in DOMAIN keep |-> [pattern |-> IgnoreKeys[keep[j]],
                                ignore |-> f[keep[j]] = "true"]]
IgnoreTables == {IgnoreRows(f) : f \in [DOMAIN IgnoreKeys -> {"none", "true", "false"}]}

\* compilePattern: "^" + QuoteMeta(pattern) + "$", then "\?" becomes "." and "\*"
\* becomes ".*"; a regular expression is the sequence of its atoms
compilePattern(pattern) ==
    [k \in DOMAIN pattern |->
        IF pattern[k] = "?" THEN "." ELSE IF pattern[k] = "*" THEN ".*" ELSE pattern[k]]

\* getMoreSpecificPatterns: the same with "[^\*]" for "\?"
getMoreSpecificPatterns(lessSpecific) ==
    [k \in DOMAIN lessSpecific |->
        IF lessSpecific[k] = "?" THEN "[^*]"
        ELSE IF lessSpecific[k] = "*" THEN ".*" ELSE lessSpecific[k]]

RECURSIVE MatchString(_, _)
\* Regexp.MatchString for an expression anchored at both ends
MatchString(re, s) ==
    IF re = <<>> THEN s = <<>>
    ELSE IF Head(re) = ".*"
         THEN MatchString(Tail(re), s) \/ (s # <<>> /\ MatchString(re, Tail(s)))
    ELSE /\ s # <<>>
         /\ CASE Head(re) = "." -> TRUE
              [] Head(re) = "[^*]" -> Head(s) # "*"
              [] OTHER -> Head(s) = Head(re)
         /\ MatchString(Tail(re), Tail(s))

\* the patterns of the rows of p with the flag ignore that match name, in p's order
MatchesOf(p, name, ignore) ==
    LET sel == SelectSeq(p, LAMBDA e : /\ e.ignore = ignore
                                       /\ MatchString(compilePattern(e.pattern), name))
    IN  [k \in DOMAIN sel |-> sel[k].pattern]

\* the keys of the map of matches to remove: those of ms whose more-specific
\* expression matches one of others
MatchesToRemove(ms, others) ==
    {m \in Range(ms) : \E o \in Range(others) :
                          MatchString(getMoreSpecificPatterns(m), o)}

resolveConflictingPatterns(trueMatches, falseMatches, name) ==
    LET trueMatchesToRemove == MatchesToRemove(trueMatches, falseMatches)
        falseMatchesToRemove == MatchesToRemove(falseMatches, trueMatches)
    IN  IF Cardinality(trueMatchesToRemove) = Len(trueMatches)
        THEN [ret |-> FALSE, err |-> NoConflict]
        ELSE IF Cardinality(falseMatchesToRemove) = Len(falseMatches)
        THEN [ret |-> TRUE, err |-> NoConflict]
        ELSE [ret |-> FALSE,
              err |-> [conflict |-> TRUE, Table |-> name,
                       TruePatterns |->
                           SelectSeq(trueMatches, LAMBDA m : m \notin trueMatchesToRemove),
                       \* the false matches are looked up in trueMatchesToRemove
                       FalsePatterns |->
                           SelectSeq(falseMatches, LAMBDA m : m \notin trueMatchesToRemove)]]

IsTableNameIgnored(p, name) ==
    LET trueMatches == MatchesOf(p, name, TRUE)
        falseMatches == MatchesOf(p, name, FALSE)
    IN  IF Len(trueMatches) = 0 THEN [ret |-> FALSE, err |-> NoConflict]
        ELSE IF Len(falseMatches) = 0 THEN [ret |-> TRUE, err |-> NoConflict]
        ELSE resolveConflictingPatterns(trueMatches, falseMatches, name)

\* one call ip.IsTableNameIgnored(tableName), from entry to return
CallIsTableNameIgnored ==
    /\ ipc = "call"
    /\ ignored' = IsTableNameIgnored(ip, tableName)
    /\ ipc' = "returned"
    /\ UNCHANGED <<ip, tableName, mrgVars, pullVars>>

\* the calls of IsTableNameIgnored: any table of the rows above, any of the names
IgnoreInit ==
    /\ PullerInit({Scn(GLeaf, {}, {"A"}, 1, TRUE, TRUE)}, {})
    /\ MergeIdle
    /\ ip \in IgnoreTables
    /\ tableName \in TableNames
    /\ ipc = "call"
    /\ ignored = [ret |-> FALSE, err |-> NoConflict]
IgnoreNext == CallIsTableNameIgnored
IgnoreSpec == IgnoreInit /\ [][IgnoreNext]_vars

\* the matching patterns of either kind, and those of ms no pattern of others overrides:
\* q overrides m when q is among the patterns more specific than m
Matching(ignore) == Range(MatchesOf(ip, tableName, ignore))
NotOverridden(ms, others) ==
    {m \in ms : ~\E q \in others : MatchString(getMoreSpecificPatterns(m), q)}

\* the results but for the list of the false patterns of a conflict
IgnoredButFalsePatterns ==
    ipc = "returned" =>
        LET T == Matching(TRUE)
            F == Matching(FALSE)
        IN  IF T = {} \/ NotOverridden(T, F) = {}
            THEN ignored = [ret |-> FALSE, err |-> NoConflict]
            ELSE IF NotOverridden(F, T) = {}
            THEN ignored = [ret |-> TRUE, err |-> NoConflict]
            ELSE /\ ~ignored.ret /\ ignored.err.conflict
                 /\ ignored.err.Table = tableName
                 /\ Range(ignored.err.TruePatterns) = NotOverridden(T, F)

\* C38: IsTableNameIgnored returns false when no ignore=true pattern matches the name
\* and true when only ignore=true patterns match it; when both kinds match it returns
\* false if every matching true pattern is overridden by a more specific matching false
\* pattern, else true if every matching false pattern is overridden by a more specific
\* matching true pattern, else a DoltIgnoreConflict whose TruePatterns and
\* FalsePatterns are the matching patterns of each kind that were not overridden
C38_IgnoreResolution ==
    /\ IgnoredButFalsePatterns
    /\ (ipc = "returned" /\ ignored.err.conflict) =>
           Range(ignored.err.FalsePatterns) = NotOverridden(Matching(FALSE), Matching(TRUE))

\* a call has returned a conflict though one matching false pattern was overridden
OverriddenInConflict ==
    /\ ipc = "returned" /\ ignored.err.conflict
    /\ NotOverridden(Matching(FALSE), Matching(TRUE)) # Matching(FALSE)

\* ------------------------------------------------------------ merge of CHECK constraints
\* a schema.Check is its name and its definition; == on two checks compares both. The
\* names, in the order of a collection, and the definitions of the checks of a side
CheckNames == <<"c1", "c2">>
CheckExprs == {"x > 0", "x > 1", "x > 2"}

\* the checks of one side: f gives each name its definition, or no check
ChecksOf(f) ==
    LET keep == SelectSeq([k \in DOMAIN CheckNames |-> k],
                          LAMBDA k : f[CheckNames[k]] # "none")
    IN  [j \in DOMAIN keep |-> [name |-> CheckNames[keep[j]],
                                expr |-> f[CheckNames[keep[j]]]]]
CheckSides == {ChecksOf(f) : f \in [Range(CheckNames) -> CheckExprs \cup {"none"}]}

\* the map from name to check of the loops over theirChks and ancChks: the last check
\* of a name is the one kept
ChkMap(chks) ==
    [n \in {chks[k].name : k \in DOMAIN chks} |->
        chks[CHOOSE k \in DOMAIN chks :
                /\ chks[k].name = n
                /\ \A j \in DOMAIN chks : j > k => chks[j].name # n]]

\* one turn of the loop over ourChks
MergeCheck(acc, ourChk, theirChkMap, ancChkMap) ==
    LET conflict == [kind |-> "nameCollision", ours |-> ourChk,
                     theirs |-> theirChkMap[ourChk.name]]
    IN  IF ourChk.name \notin DOMAIN theirChkMap THEN acc
        ELSE IF ourChk = theirChkMap[ourChk.name]
        THEN [acc EXCEPT !.common = Append(@, ourChk)]
        ELSE IF ourChk.name \notin DOMAIN ancChkMap
        THEN [acc EXCEPT !.conflicts = Append(@, conflict)]
        ELSE IF ancChkMap[ourChk.name] = theirChkMap[ourChk.name]
        THEN [acc EXCEPT !.common = Append(@, ourChk)]
        \* modified in their branch only: ourChk again
        ELSE IF ancChkMap[ourChk.name] = ourChk
        THEN [acc EXCEPT !.common = Append(@, ourChk)]
        ELSE [acc EXCEPT !.conflicts = Append(@, conflict)]

RECURSIVE MergeChecksFrom(_, _, _, _)
MergeChecksFrom(ours, acc, theirChkMap, ancChkMap) ==
    IF ours = <<>> THEN acc
    ELSE MergeChecksFrom(Tail(ours), MergeCheck(acc, Head(ours), theirChkMap, ancChkMap),
                         theirChkMap, ancChkMap)

checksInCommon(ours, theirs, anc) ==
    MergeChecksFrom(ours, [common |-> <<>>, conflicts |-> <<>>], ChkMap(theirs), ChkMap(anc))

\* one call checksInCommon(ourChks, theirChks, ancChks), from entry to return
CallChecksInCommon ==
    /\ mpc = "call"
    /\ merged' = checksInCommon(ourChks, theirChks, ancChks)
    /\ mpc' = "returned"
    /\ UNCHANGED <<ourChks, theirChks, ancChks, ignVars, pullVars>>

\* the calls of checksInCommon: any checks of the names above on each of the sides
MergeInit ==
    /\ PullerInit({Scn(GLeaf, {}, {"A"}, 1, TRUE, TRUE)}, {})
    /\ IgnoreIdle
    /\ ourChks \in CheckSides /\ theirChks \in CheckSides /\ ancChks \in CheckSides
    /\ mpc = "call"
    /\ merged = [common |-> <<>>, conflicts |-> <<>>]
MergeNext == CallChecksInCommon
MergeSpec == MergeInit /\ [][MergeNext]_vars

\* the names of the checks of a side, and its check of a name
NamesOf(chks) == {chks[k].name : k \in DOMAIN chks}
CheckOf(chks, n) == CHOOSE c \in Range(chks) : c.name = n
\* the call has reported the collision of the name n and left n out of the result
Collides(n) ==
    /\ [kind |-> "nameCollision", ours |-> CheckOf(ourChks, n),
        theirs |-> CheckOf(theirChks, n)] \in Range(merged.conflicts)
    /\ n \notin NamesOf(merged.common)

\* the results but for a check modified in their branch only
MergedButTheirs ==
    mpc = "returned" =>
        \A n \in NamesOf(ourChks) \cap NamesOf(theirChks) :
            LET o == CheckOf(ourChks, n)
                t == CheckOf(theirChks, n)
            IN  IF n \in NamesOf(ancChks)
                THEN LET a == CheckOf(ancChks, n)
                     IN  /\ (o # a /\ t = a) => o \in Range(merged.common)
                         /\ (o # a /\ t # a /\ o # t) => Collides(n)
                ELSE o # t => Collides(n)

\* C39: for a CHECK that ours, theirs and the ancestor have by name, checksInCommon
\* puts our definition in the merged result when only our branch modified it and their
\* definition when only their branch did, and reports a name collision, leaving the
\* check out of the result, when both modified it differently or when it has no
\* ancestor and the two differ
C39_ThreeWayChecks ==
    /\ MergedButTheirs
    /\ mpc = "returned" =>
         \A n \in NamesOf(ourChks) \cap NamesOf(theirChks) \cap NamesOf(ancChks) :
            (CheckOf(theirChks, n) # CheckOf(ancChks, n)
                /\ CheckOf(ourChks, n) = CheckOf(ancChks, n)) =>
                    CheckOf(theirChks, n) \in Range(merged.common)

\* a check modified in their branch only comes out with the ancestor's definition
TheirsDropped ==
    mpc = "returned" =>
         \A n \in NamesOf(ourChks) \cap NamesOf(theirChks) \cap NamesOf(ancChks) :
            (CheckOf(theirChks, n) # CheckOf(ancChks, n)
                /\ CheckOf(ourChks, n) = CheckOf(ancChks, n)) =>
                    /\ CheckOf(ancChks, n) \in Range(merged.common)
                    /\ CheckOf(theirChks, n) \notin Range(merged.common)

====
